---------------------------- MODULE Spec2Model ----------------------------
(***************************************************************************)
(* GitScope: the git analyzer (apps/ui/src/git/analyzer.ts, kept in        *)
(* src/unnamed/part_000 from line 312 on).                                 *)
(*                                                                         *)
(* A text is a sequence of one-character strings, so that trimming,        *)
(* splitting and the regular expressions of the analyzer are computed      *)
(* character by character, as the code does.  One run of analyzeGitIndex   *)
(* is a state machine whose steps are the stages separated by its awaits.  *)
(* Next to it stand the live-tracking controller (features/live), the      *)
(* store (app/store.ts), the timeline view's filter and paging, and the    *)
(* loaders (app/loaders.ts) with the buttons that call them.               *)
(***************************************************************************)
EXTENDS Integers, Sequences, FiniteSets, TLC

(***************************************************************************)
(* Characters and the string primitives of the JavaScript runtime          *)
(***************************************************************************)

\* the white space of \s and of String.prototype.trim met in the model's texts
WhiteSpace == {" ", "\t", "\n", "\r"}

\* the line terminators "." does not match
LineTerminator == {"\n", "\r"}

Digit == {"0", "1", "2", "3", "4", "5", "6", "7", "8", "9"}

\* [0-9a-f] under the i flag
HexDigit == Digit \cup {"a", "b", "c", "d", "e", "f", "A", "B", "C", "D", "E", "F"}

\* [A-Za-z0-9.\-] and [a-z0-9\-] are built from these
LowerLetter ==
    {"a", "b", "c", "d", "e", "f", "g", "h", "i", "j", "k", "l", "m",
     "n", "o", "p", "q", "r", "s", "t", "u", "v", "w", "x", "y", "z"}

UpperLetter ==
    {"A", "B", "C", "D", "E", "F", "G", "H", "I", "J", "K", "L", "M",
     "N", "O", "P", "Q", "R", "S", "T", "U", "V", "W", "X", "Y", "Z"}

LowerOf ==
    [c \in UpperLetter |->
        CASE c = "A" -> "a" [] c = "B" -> "b" [] c = "C" -> "c" [] c = "D" -> "d"
          [] c = "E" -> "e" [] c = "F" -> "f" [] c = "G" -> "g" [] c = "H" -> "h"
          [] c = "I" -> "i" [] c = "J" -> "j" [] c = "K" -> "k" [] c = "L" -> "l"
          [] c = "M" -> "m" [] c = "N" -> "n" [] c = "O" -> "o" [] c = "P" -> "p"
          [] c = "Q" -> "q" [] c = "R" -> "r" [] c = "S" -> "s" [] c = "T" -> "t"
          [] c = "U" -> "u" [] c = "V" -> "v" [] c = "W" -> "w" [] c = "X" -> "x"
          [] c = "Y" -> "y" [] c = "Z" -> "z"]

\* String.prototype.toLowerCase
toLowerCase(s) ==
    [i \in 1..Len(s) |-> IF s[i] \in UpperLetter THEN LowerOf[s[i]] ELSE s[i]]

SetMin(S) == CHOOSE x \in S : \A y \in S : x <= y

SetMax(S) == CHOOSE x \in S : \A y \in S : x >= y

\* the elements of S from lo to hi in increasing order
RECURSIVE SortedIn(_, _, _)
SortedIn(S, lo, hi) ==
    IF lo > hi THEN <<>>
    ELSE IF lo = hi THEN (IF lo \in S THEN <<lo>> ELSE <<>>)
    ELSE SortedIn(S, lo, (lo + hi) \div 2) \o SortedIn(S, (lo + hi) \div 2 + 1, hi)

\* the elements of a finite set of numbers in increasing order
SortedSeq(S) == IF S = {} THEN <<>> ELSE SortedIn(S, SetMin(S), SetMax(S))

\* the characters of s at the positions K, in order
KeepAt(s, K) ==
    LET idx == SortedSeq(K) IN [j \in 1..Len(idx) |-> s[idx[j]]]

\* String.prototype.trim
trim(s) ==
    LET solid == {i \in 1..Len(s) : s[i] \notin WhiteSpace}
    IN  IF solid = {} THEN <<>> ELSE SubSeq(s, SetMin(solid), SetMax(solid))

\* String.prototype.startsWith
startsWith(s, prefix) ==
    /\ Len(s) >= Len(prefix)
    /\ SubSeq(s, 1, Len(prefix)) = prefix

\* String.prototype.slice(from) with from >= 0
sliceFrom(s, from) == SubSeq(s, from + 1, Len(s))

\* String.prototype.indexOf for one character, 0-based, -1 when absent
indexOf(s, c) ==
    LET hits == {i \in 1..Len(s) : s[i] = c}
    IN  IF hits = {} THEN -1 ELSE SetMin(hits) - 1

\* the last position of the run of non-white-space characters that starts at i
RunEnd(s, i) ==
    SetMin({j \in i..Len(s) : j = Len(s) \/ s[j + 1] \in WhiteSpace})

\* the maximal runs of non-white-space characters of s from position i on
RECURSIVE TokensFrom(_, _)
TokensFrom(s, i) ==
    IF i > Len(s) THEN <<>>
    ELSE IF s[i] \in WhiteSpace THEN TokensFrom(s, i + 1)
    ELSE LET e == RunEnd(s, i)
         IN  <<SubSeq(s, i, e)>> \o TokensFrom(s, e + 1)

\* String.prototype.split(/\s+/): an empty first (last) element when s starts
\* (ends) with white space, [""] for the empty string
splitWs(s) ==
    IF s = <<>> THEN << <<>> >>
    ELSE (IF s[1] \in WhiteSpace THEN << <<>> >> ELSE <<>>)
         \o TokensFrom(s, 1)
         \o (IF s[Len(s)] \in WhiteSpace THEN << <<>> >> ELSE <<>>)

\* String.prototype.split(/\r?\n/)
splitLines(s) ==
    LET n  == Len(s)
        nl == SortedSeq({i \in 1..n : s[i] = "\n"})
        k  == Len(nl)
    IN  [j \in 1..(k + 1) |->
            LET a  == IF j = 1 THEN 1 ELSE nl[j - 1] + 1
                b0 == IF j = k + 1 THEN n ELSE nl[j] - 1
                b  == IF j <= k /\ b0 >= a /\ s[b0] = "\r" THEN b0 - 1 ELSE b0
            IN  SubSeq(s, a, b)]

DigitValue(c) ==
    CASE c = "0" -> 0 [] c = "1" -> 1 [] c = "2" -> 2 [] c = "3" -> 3 [] c = "4" -> 4
      [] c = "5" -> 5 [] c = "6" -> 6 [] c = "7" -> 7 [] c = "8" -> 8 [] c = "9" -> 9

\* Number.parseInt(s, 10) of a string the caller has matched against \d+
RECURSIVE parseDigits(_, _)
parseDigits(s, acc) ==
    IF s = <<>> THEN acc
    ELSE parseDigits(Tail(s), acc * 10 + DigitValue(Head(s)))

(***************************************************************************)
(* Maps (insertion ordered, as the JavaScript Map): sequences of [k, v]     *)
(***************************************************************************)

MapHas(m, key) == \E i \in 1..Len(m) : m[i].k = key

\* Map.prototype.get, for a key the map holds
MapGet(m, key) == m[CHOOSE i \in 1..Len(m) : m[i].k = key].v

\* a set that leaves the value of a held key as it is
MapSetKeepFirst(m, key, val) ==
    IF MapHas(m, key) THEN m ELSE Append(m, [k |-> key, v |-> val])

\* Map.prototype.set: a held key keeps its place and takes the new value
MapSet(m, key, val) ==
    IF MapHas(m, key)
    THEN [i \in 1..Len(m) |-> IF m[i].k = key THEN [k |-> key, v |-> val] ELSE m[i]]
    ELSE Append(m, [k |-> key, v |-> val])

\* Map.prototype.keys, in insertion order
MapKeys(m) == [i \in 1..Len(m) |-> m[i].k]

\* Map.prototype.values, in insertion order
MapValues(m) == [i \in 1..Len(m) |-> m[i].v]

(***************************************************************************)
(* A value that may be null or undefined is <<>>, a present one <<v>>.      *)
(***************************************************************************)

Absent == <<>>

Present(v) == <<v>>

(***************************************************************************)
(* Index normalization                                                     *)
(***************************************************************************)

\* path.replace(/\\/g, "/")
unifySeparators(p) == [i \in 1..Len(p) |-> IF p[i] = "\\" THEN "/" ELSE p[i]]

\* p.replace(/^\.\//, "")
dropDotSlash(p) == IF startsWith(p, <<".", "/">>) THEN sliceFrom(p, 2) ELSE p

\* p.replace(/^\/+/, "")
dropLeadingSlashes(p) ==
    LET solid == {i \in 1..Len(p) : p[i] # "/"}
    IN  IF solid = {} THEN <<>> ELSE SubSeq(p, SetMin(solid), Len(p))

\* p.replace(/\/{2,}/g, "/")
collapseSlashes(p) ==
    KeepAt(p, {i \in 1..Len(p) : ~(p[i] = "/" /\ i > 1 /\ p[i - 1] = "/")})

\* p.replace(/\/+$/, "")
dropTrailingSlashes(p) ==
    LET solid == {i \in 1..Len(p) : p[i] # "/"}
    IN  IF solid = {} THEN <<>> ELSE SubSeq(p, 1, SetMax(solid))

\* if (p.startsWith(".git/")) p = p.slice(".git/".length)
dropDotGit(p) ==
    IF startsWith(p, <<".", "g", "i", "t", "/">>) THEN sliceFrom(p, 5) ELSE p

\* normalizeGitPath (part_000:438-458)
normalizeGitPath(path) ==
    IF path = <<>> THEN <<>>
    ELSE trim(dropDotGit(dropTrailingSlashes(collapseSlashes(
             dropLeadingSlashes(dropDotSlash(unifySeparators(path)))))))

\* file.size || 0
sizeOrZero(file) == file.size

\* one turn of the loop of normalizeIndex: the raw entry e, whose path
\* normalizes to p
normalizeEntry(acc, e, p) ==
    IF p = <<>> THEN acc
    ELSE [byPath     |-> MapSet(acc.byPath, p, e.v),
          totalBytes |-> acc.totalBytes + sizeOrZero(e.v)]

\* the loop of normalizeIndex over the entries i.. of the raw map
RECURSIVE normalizeFrom(_, _, _)
normalizeFrom(raw, i, acc) ==
    IF i > Len(raw) THEN acc
    ELSE normalizeFrom(raw, i + 1, normalizeEntry(acc, raw[i], normalizeGitPath(raw[i].k)))

\* normalizeIndex (part_000:417-429)
normalizeIndex(index) ==
    normalizeFrom(index.byPath, 1, [byPath |-> <<>>, totalBytes |-> 0])

(***************************************************************************)
(* Readers                                                                 *)
(***************************************************************************)

\* readText: the content of a file that can be read
readText(file) == file.text

\* map.get(key) ?? null
MapLookup(m, key) == IF MapHas(m, key) THEN Present(MapGet(m, key)) ELSE Absent

\* getFile: the file or null
getFile(files, path) == MapLookup(files.byPath, normalizeGitPath(path))

\* the keys equal to pfx or under it, in map order
keysUnder(keys, pfx) ==
    SelectSeq(keys, LAMBDA key : key = pfx \/ startsWith(key, Append(pfx, "/")))

\* listPaths
listPaths(files, prefix) == keysUnder(MapKeys(files.byPath), normalizeGitPath(prefix))

(***************************************************************************)
(* Utilities                                                               *)
(***************************************************************************)

ShaMinLen == 7

ShaMaxLen == 40

\* the test of an id without its least length: /^[0-9a-f]{1,40}$/i
isShaNoMin(s) ==
    /\ s # <<>>
    /\ LET t == trim(s)
       IN  /\ Len(t) >= 1
           /\ Len(t) <= ShaMaxLen
           /\ \A i \in 1..Len(t) : t[i] \in HexDigit

\* isSha: /^[0-9a-f]{7,40}$/i on the trimmed string; false for null and ""
isSha(s) ==
    /\ s # <<>>
    /\ LET t == trim(s)
       IN  /\ Len(t) >= ShaMinLen
           /\ Len(t) <= ShaMaxLen
           /\ \A i \in 1..Len(t) : t[i] \in HexDigit

\* safeInt: parseInt of the digits the reflog pattern captured
safeInt(s) == parseDigits(s, 0)

\* clampInt, for a finite integer n
clampInt(n, min, max) ==
    LET lo == IF n > min THEN n ELSE min
    IN  IF lo < max THEN lo ELSE max

\* text.split(/\s+/)[0]?.trim()
firstToken(txt) == trim(splitWs(txt)[1])

(***************************************************************************)
(* HEAD parsing                                                            *)
(***************************************************************************)

NoHead == [type |-> "none", value |-> <<>>]

\* the pattern without its i flag: /^ref:\s+(.+)\s*$/
RefHeadMatchesExact(txt) ==
    LET n == Len(txt)
    IN  IF ~(n >= 4 /\ SubSeq(txt, 1, 4) = <<"r", "e", "f", ":">>)
        THEN {}
        ELSE {km \in (1..n) \X (1..n) :
                /\ 4 + km[1] + km[2] <= n
                /\ \A i \in 5..(4 + km[1]) : txt[i] \in WhiteSpace
                /\ \A i \in (5 + km[1])..(4 + km[1] + km[2]) : txt[i] \notin LineTerminator
                /\ \A i \in (5 + km[1] + km[2])..n : txt[i] \in WhiteSpace}

\* /^ref:\s+(.+)\s*$/i: the pairs <<k, m>> of a run of k white-space characters
\* after "ref:" and a capture of m characters that let the pattern match
RefHeadMatches(txt) ==
    LET n == Len(txt)
    IN  IF ~(n >= 4 /\ toLowerCase(SubSeq(txt, 1, 4)) = <<"r", "e", "f", ":">>)
        THEN {}
        ELSE {km \in (1..n) \X (1..n) :
                /\ 4 + km[1] + km[2] <= n
                /\ \A i \in 5..(4 + km[1]) : txt[i] \in WhiteSpace
                /\ \A i \in (5 + km[1])..(4 + km[1] + km[2]) : txt[i] \notin LineTerminator
                /\ \A i \in (5 + km[1] + km[2])..n : txt[i] \in WhiteSpace}

\* the capture m[1] of the first of the matches ms the backtracking finds: both
\* quantifiers are greedy, the white-space run first
RefHeadCapture(txt, ms) ==
    LET k == SetMax({km[1] : km \in ms})
    IN  SubSeq(txt, 5 + k, 4 + k + SetMax({km[2] : km \in {x \in ms : x[1] = k}}))

\* if (isSha(sha)) return { type: "detached", value: sha }; return null
detachedHead(sha) == IF isSha(sha) THEN [type |-> "detached", value |-> sha] ELSE NoHead

\* parseHead from the trimmed text on, ms being the matches of the ref pattern
headOf(txt, ms) ==
    IF ms # {} THEN [type |-> "ref", value |-> trim(RefHeadCapture(txt, ms))]
    ELSE detachedHead(firstToken(txt))

parseHeadText(txt) == headOf(txt, RefHeadMatches(txt))

parseHeadFile(f) == IF f = Absent THEN NoHead ELSE parseHeadText(trim(readText(f[1])))

\* parseHead (part_000:486-503)
parseHead(files) == parseHeadFile(getFile(files, <<"H", "E", "A", "D">>))

(***************************************************************************)
(* Refs parsing (packed-refs + loose refs)                                 *)
(***************************************************************************)

\* a line of parsePackedRefs taken whatever its first token is
packedLineAnyId(s, parts) ==
    IF s = <<>> \/ startsWith(s, <<"#">>) THEN <<>>
    ELSE IF startsWith(s, <<"^">>) THEN <<>>
    ELSE IF Len(parts) < 2 THEN <<>>
    ELSE IF parts[2] # <<>>
         THEN <<[ref |-> parts[2], sha |-> parts[1]]>>
         ELSE <<>>

\* one line of parsePackedRefs: s is the trimmed line, parts its split at white
\* space; the pairs it pushes
packedLine(s, parts) ==
    IF s = <<>> \/ startsWith(s, <<"#">>) THEN <<>>
    ELSE IF startsWith(s, <<"^">>) THEN <<>>
    ELSE IF Len(parts) < 2 THEN <<>>
    ELSE IF isSha(parts[1]) /\ parts[2] # <<>>
         THEN <<[ref |-> parts[2], sha |-> parts[1]]>>
         ELSE <<>>

\* the loop of parsePackedRefs over the lines i..
RECURSIVE packedFrom(_, _)
packedFrom(lines, i) ==
    IF i > Len(lines) THEN <<>>
    ELSE packedLine(trim(lines[i]), splitWs(trim(lines[i]))) \o packedFrom(lines, i + 1)

\* parsePackedRefs (part_000:555-571): the [ref, sha] pairs in line order
parsePackedRefs(text) == packedFrom(splitLines(text), 1)

\* for (const [ref, sha] of parsePackedRefs(txt)) refs.set(ref, sha)
RECURSIVE setPacked(_, _, _)
setPacked(refs, pairs, i) ==
    IF i > Len(pairs) THEN refs
    ELSE setPacked(MapSet(refs, pairs[i].ref, pairs[i].sha), pairs, i + 1)

\* if (isSha(sha)) refs.set(path, sha)
setOrDelete(refs, path, sha) ==
    IF isSha(sha) THEN MapSet(refs, path, sha)
    ELSE SelectSeq(refs, LAMBDA e : e.k # path)

setIfSha(refs, path, sha) == IF isSha(sha) THEN MapSet(refs, path, sha) ELSE refs

\* the loop over files.byPath.keys() that reads the loose refs under refs/
RECURSIVE setLoose(_, _, _)
setLoose(refs, files, i) ==
    IF i > Len(files.byPath) THEN refs
    ELSE IF ~startsWith(files.byPath[i].k, <<"r", "e", "f", "s", "/">>)
         THEN setLoose(refs, files, i + 1)
         ELSE setLoose(setIfSha(refs, files.byPath[i].k,
                                firstToken(trim(readText(files.byPath[i].v)))),
                       files, i + 1)

specials ==
    << <<"O", "R", "I", "G", "_", "H", "E", "A", "D">>,
       <<"F", "E", "T", "C", "H", "_", "H", "E", "A", "D">>,
       <<"M", "E", "R", "G", "E", "_", "H", "E", "A", "D">>,
       <<"C", "H", "E", "R", "R", "Y", "_", "P", "I", "C", "K", "_", "H", "E", "A", "D">>,
       <<"R", "E", "B", "A", "S", "E", "_", "H", "E", "A", "D">> >>

\* one special ref: f is its file or null
setSpecial(refs, sp, f) ==
    IF f = Absent THEN refs ELSE setIfSha(refs, sp, firstToken(trim(readText(f[1]))))

\* the loop over the special refs
RECURSIVE setSpecials(_, _, _)
setSpecials(refs, files, i) ==
    IF i > Len(specials) THEN refs
    ELSE setSpecials(setSpecial(refs, specials[i], getFile(files, specials[i])), files, i + 1)

\* parseRefs, 1): the table after the packed entries; packed is the file or null
setPackedFile(packed) ==
    IF packed = Absent THEN <<>>
    ELSE setPacked(<<>>, parsePackedRefs(readText(packed[1])), 1)

\* parseRefs (part_000:509-546): packed entries, then loose refs, then specials
parseRefs(files) ==
    setSpecials(
        setLoose(setPackedFile(getFile(files, <<"p", "a", "c", "k", "e", "d", "-", "r", "e", "f", "s">>)),
                 files, 1),
        files, 1)

(***************************************************************************)
(* Config parsing (only remotes)                                           *)
(***************************************************************************)

\* /^\[(.+?)\]$/ on a trimmed line: the capture, or nothing
sectionName(t) ==
    LET n == Len(t)
    IN  IF /\ n >= 3
           /\ t[1] = "["
           /\ t[n] = "]"
           /\ \A i \in 2..(n - 1) : t[i] \notin LineTerminator
        THEN Present(SubSeq(t, 2, n - 1))
        ELSE Absent

\* /^remote\s+"([^"]+)"$/i on a section name: the remote's name, or nothing
remoteName(sec) ==
    LET n == Len(sec)
        solid == {i \in 7..n : sec[i] \notin WhiteSpace}
        q == IF solid = {} THEN 0 ELSE SetMin(solid)
    IN  IF /\ n >= 6
           /\ toLowerCase(SubSeq(sec, 1, 6)) = <<"r", "e", "m", "o", "t", "e">>
           /\ q > 7
           /\ sec[q] = "\""
           /\ n > q + 1
           /\ sec[n] = "\""
           /\ \A i \in (q + 1)..(n - 1) : sec[i] # "\""
        THEN Present(SubSeq(sec, q + 1, n - 1))
        ELSE Absent

\* /^([A-Za-z0-9.\-]+)\s*=\s*(.*)$/ on a trimmed line: [key, value], or nothing
keyValue(t) ==
    LET n   == Len(t)
        run == {j \in 1..n :
                  \A i \in 1..j : t[i] \in LowerLetter \cup UpperLetter \cup Digit \cup {".", "-"}}
        r   == IF run = {} THEN 0 ELSE SetMax(run)
        s1  == {i \in (r + 1)..n : t[i] \notin WhiteSpace}
        eq  == IF s1 = {} THEN 0 ELSE SetMin(s1)
        s2  == {i \in (eq + 1)..n : t[i] \notin WhiteSpace}
        v1  == IF s2 = {} THEN n + 1 ELSE SetMin(s2)
    IN  IF /\ r > 0
           /\ eq > 0
           /\ t[eq] = "="
           /\ \A i \in v1..n : t[i] \notin LineTerminator
        THEN Present([key |-> SubSeq(t, 1, r), value |-> SubSeq(t, v1, n)])
        ELSE Absent

\* if (currentRemote) remotes.push(currentRemote)
flushRemote(acc) ==
    IF acc.currentRemote # Absent THEN Append(acc.remotes, acc.currentRemote[1])
    ELSE acc.remotes

\* currentRemote = remoteMatch ? { name: remoteMatch[1] } : null
openRemote(name) ==
    IF name # Absent THEN Present([name |-> name[1], fetch |-> Absent, push |-> Absent])
    ELSE Absent

\* the key applied so that the first url or fetch line of a section stays
applyKeyFirstWins(cur, key, value) ==
    [name  |-> cur.name,
     fetch |-> IF (key = <<"u", "r", "l">> \/ key = <<"f", "e", "t", "c", "h">>)
                  /\ cur.fetch = Absent
               THEN Present(value) ELSE cur.fetch,
     push  |-> IF key = <<"p", "u", "s", "h", "u", "r", "l">>
               THEN Present(value) ELSE cur.push]

\* a key/value line inside a remote section: cur with the key applied
applyKey(cur, key, value) ==
    [name  |-> cur.name,
     fetch |-> IF key = <<"u", "r", "l">> \/ key = <<"f", "e", "t", "c", "h">>
               THEN Present(value) ELSE cur.fetch,
     push  |-> IF key = <<"p", "u", "s", "h", "u", "r", "l">>
               THEN Present(value) ELSE cur.push]

\* one line of parseGitConfigRemotes that is no comment: sec is the match of the
\* section pattern, kv the match of the key/value pattern; acc is
\* [remotes, currentRemote]
configLine(acc, sec, kv) ==
    IF sec # Absent
    THEN [remotes |-> flushRemote(acc), currentRemote |-> openRemote(remoteName(sec[1]))]
    ELSE IF acc.currentRemote # Absent /\ kv # Absent
    THEN [remotes       |-> acc.remotes,
          currentRemote |-> Present(applyKey(acc.currentRemote[1],
                                             toLowerCase(kv[1].key), kv[1].value))]
    ELSE acc

\* one trimmed line of parseGitConfigRemotes
configTrimmed(acc, trimmed) ==
    IF trimmed = <<>> \/ startsWith(trimmed, <<";">>) \/ startsWith(trimmed, <<"#">>)
    THEN acc
    ELSE configLine(acc, sectionName(trimmed), keyValue(trimmed))

\* the loop of parseGitConfigRemotes over the lines i..
RECURSIVE configFrom(_, _, _)
configFrom(lines, i, acc) ==
    IF i > Len(lines) THEN flushRemote(acc)
    ELSE configFrom(lines, i + 1, configTrimmed(acc, trim(lines[i])))

\* the deduplication that keeps the first record of a name
RECURSIVE dedupKeepFirst(_, _, _)
dedupKeepFirst(remotes, i, byName) ==
    IF i > Len(remotes) THEN byName
    ELSE dedupKeepFirst(remotes, i + 1,
                        IF MapHas(byName, remotes[i].name) THEN byName
                        ELSE MapSet(byName, remotes[i].name, remotes[i]))

\* for (const r of remotes) byName.set(r.name, r)
RECURSIVE dedupByName(_, _, _)
dedupByName(remotes, i, byName) ==
    IF i > Len(remotes) THEN byName
    ELSE dedupByName(remotes, i + 1, MapSet(byName, remotes[i].name, remotes[i]))

\* parseGitConfigRemotes (part_000:599-642)
parseGitConfigRemotes(raw) ==
    MapValues(dedupByName(
        configFrom(splitLines(raw), 1, [remotes |-> <<>>, currentRemote |-> Absent]),
        1, <<>>))

\* parseConfig from the file on
configOf(f, includeRaw) ==
    IF f = Absent THEN Absent
    ELSE Present([remotes |-> parseGitConfigRemotes(readText(f[1])),
                  raw     |-> IF includeRaw THEN Present(readText(f[1])) ELSE Absent])

\* parseConfig (part_000:577-590): null without a config file; raw is kept only
\* when includeRaw is set
parseConfig(files, includeRaw) ==
    configOf(getFile(files, <<"c", "o", "n", "f", "i", "g">>), includeRaw)

(***************************************************************************)
(* Reflogs parsing                                                         *)
(***************************************************************************)

\* the last position before j that holds no white space, 0 when there is none
SolidBefore(t, j) ==
    LET solid == {i \in 1..(j - 1) : t[i] \notin WhiteSpace}
    IN  IF solid = {} THEN 0 ELSE SetMax(solid)

\* the first position of the run of non-white-space characters that ends at j
RunStart(t, j) ==
    SetMax({i \in 1..j : i = 1 \/ t[i - 1] \in WhiteSpace})

IsHexRun(t, a, b) ==
    /\ b - a + 1 >= ShaMinLen
    /\ b - a + 1 <= ShaMaxLen
    /\ \A i \in a..b : t[i] \in HexDigit

\* The reflog pattern
\*   /^([0-9a-f]{7,40})\s+([0-9a-f]{7,40})\s+(.+)\s+<([^>]+)>\s+(\d+)\s+([+-]\d{4})\s*$/i
\* on t.  The two ids are the first two runs of the line; the time zone, the
\* digits and the ">" are fixed by the end of the line; what is left to the
\* backtracking is where the name (.+) starts and ends.

\* the second id: the run that starts at w1
ReflogSecondId(t, o2, w1) ==
    IF ~IsHexRun(t, w1, RunEnd(t, w1)) THEN Absent
    ELSE Present([o2 |-> o2, w1 |-> w1, w2 |-> RunEnd(t, w1)])

\* the first id: the run 1..o2, with something behind it
ReflogFirstId(t, o2) ==
    LET solid == {i \in (o2 + 1)..Len(t) : t[i] \notin WhiteSpace}
    IN  IF ~IsHexRun(t, 1, o2) \/ solid = {} THEN Absent
        ELSE ReflogSecondId(t, o2, SetMin(solid))

\* ^([0-9a-f]{7,40})\s+([0-9a-f]{7,40}): the positions of the two ids, or nothing
ReflogIds(t) ==
    IF t = <<>> \/ t[1] \in WhiteSpace THEN Absent
    ELSE ReflogFirstId(t, RunEnd(t, 1))

\* ">" at gt, the last position before the white space in front of the digits
ReflogClose(t, z1, z2, d1, d2, gt) ==
    IF gt = 0 \/ t[gt] # ">" THEN Absent
    ELSE Present([gt |-> gt, d1 |-> d1, d2 |-> d2, z1 |-> z1, z2 |-> z2])

\* (\d+): the run d1..d2, behind white space
ReflogDigits(t, z1, z2, d1, d2) ==
    IF d1 < 2 \/ \E i \in d1..d2 : t[i] \notin Digit THEN Absent
    ELSE ReflogClose(t, z1, z2, d1, d2, SolidBefore(t, d1))

\* \s+ between the digits, which end at d2, and the time zone
ReflogZoneGap(t, z1, z2, d2) ==
    IF d2 = 0 \/ d2 = z1 - 1 THEN Absent
    ELSE ReflogDigits(t, z1, z2, RunStart(t, d2), d2)

\* >\s+(\d+)\s+([+-]\d{4})\s*$ for a line whose last solid character is at z2:
\* the positions of the groups, or nothing
ReflogTail(t, z2) ==
    IF \/ z2 < 6
       \/ t[z2 - 4] \notin {"+", "-"}
       \/ \E i \in (z2 - 3)..z2 : t[i] \notin Digit
    THEN Absent
    ELSE ReflogZoneGap(t, z2 - 4, z2, SolidBefore(t, z2 - 4))

\* \s+(.+)\s+<([^>]+) between the second id, which ends at w2, and the ">" at gt:
\* the triples of the first and last position of the name and the position of "<"
ReflogNames(t, w2, gt) ==
    LET starts == {i \in (w2 + 2)..gt : \A j \in (w2 + 1)..(i - 1) : t[j] \in WhiteSpace}
        opens  == {i \in (w2 + 2)..gt : t[i] = "<"}
    IN  {x \in starts \X ((w2 + 2)..gt) \X opens :
            /\ x[1] <= x[2]
            /\ x[2] + 1 < x[3]
            /\ x[3] + 1 < gt
            /\ \A i \in x[1]..x[2] : t[i] \notin LineTerminator
            /\ \A i \in (x[2] + 1)..(x[3] - 1) : t[i] \in WhiteSpace
            /\ \A i \in (x[3] + 1)..(gt - 1) : t[i] # ">"}

ReflogJoin(ids, tail, names) ==
    {[o2 |-> ids.o2, w1 |-> ids.w1, w2 |-> ids.w2, n1 |-> x[1], n2 |-> x[2], lt |-> x[3],
      gt |-> tail.gt, d1 |-> tail.d1, d2 |-> tail.d2, z1 |-> tail.z1, z2 |-> tail.z2] :
        x \in names}

ReflogMatchesOf(t, ids, tail) ==
    IF ids = Absent \/ tail = Absent THEN {}
    ELSE ReflogJoin(ids[1], tail[1], ReflogNames(t, ids[1].w2, tail[1].gt))

\* the ways the pattern matches t, each a record of the positions of its groups
ReflogMatches(t) ==
    ReflogMatchesOf(t, ReflogIds(t), ReflogTail(t, SolidBefore(t, Len(t) + 1)))

\* the match the backtracking finds first: the \s+ before the name is greedy,
\* then the name is greedy
ReflogFirstMatch(ms) ==
    LET n1 == SetMax({m.n1 : m \in ms})
    IN  CHOOSE m \in ms :
            /\ m.n1 = n1
            /\ \A x \in ms : x.n1 = n1 => x.n2 <= m.n2

\* the entry of a line whose left part t matched as m (part_000:704-722).  ts is
\* tsSeconds * 1000, a whole number of thousands that passes 2^31: the entry
\* keeps the number of thousands, and ts stands for MsPerSecond times it
reflogEntry(ref, t, msg, m) ==
    IF \/ ~isSha(SubSeq(t, 1, m.o2))
       \/ ~isSha(SubSeq(t, m.w1, m.w2))
       \/ safeInt(SubSeq(t, m.d1, m.d2)) = 0
    THEN Absent
    ELSE Present([oldSha      |-> SubSeq(t, 1, m.o2),
                  newSha      |-> SubSeq(t, m.w1, m.w2),
                  authorName  |-> trim(SubSeq(t, m.n1, m.n2)),
                  authorEmail |-> trim(SubSeq(t, m.lt + 1, m.gt - 1)),
                  ts          |-> safeInt(SubSeq(t, m.d1, m.d2)),
                  tz          |-> SubSeq(t, m.z1, m.z2),
                  msg         |-> trim(msg),
                  ref         |-> ref])

reflogMatched(ref, t, msg, ms) ==
    IF ms = {} THEN Absent ELSE reflogEntry(ref, t, msg, ReflogFirstMatch(ms))

\* the split of a line at its first tab (part_000:692-694)
reflogSplit(ref, line, tabIdx) ==
    reflogMatched(ref,
                  trim(IF tabIdx >= 0 THEN SubSeq(line, 1, tabIdx) ELSE line),
                  IF tabIdx >= 0 THEN sliceFrom(line, tabIdx + 1) ELSE <<>>,
                  ReflogMatches(trim(IF tabIdx >= 0 THEN SubSeq(line, 1, tabIdx) ELSE line)))

\* one line of parseReflogText (part_000:688-722): the entry, or nothing
parseReflogLine(ref, line) ==
    IF line = <<>> THEN Absent ELSE reflogSplit(ref, line, indexOf(line, "\t"))

\* the entries the loop of parseReflogText pushes for the lines lo..hi, in
\* order, when nothing stops it: an entry for a line that has one
RECURSIVE reflogPushed(_, _, _, _)
reflogPushed(ref, lines, lo, hi) ==
    IF lo > hi THEN <<>>
    ELSE IF lo = hi THEN parseReflogLine(ref, lines[lo])
    ELSE reflogPushed(ref, lines, lo, (lo + hi) \div 2)
         \o reflogPushed(ref, lines, (lo + hi) \div 2 + 1, hi)

\* the break with the limit tested one entry late: entries.length > limit
reflogBreakLate(entries, limit) ==
    IF Len(entries) <= limit THEN entries
    ELSE SubSeq(entries, 1, IF limit < 0 THEN 1 ELSE limit + 1)

\* if (entries.length >= limit) break, tested after each push: the loop stops
\* with the push that brings the list to the limit
reflogBreak(entries, limit) ==
    IF Len(entries) < limit \/ entries = <<>> THEN entries
    ELSE SubSeq(entries, 1, IF limit < 1 THEN 1 ELSE limit)

\* parseReflogText from the lines on
reflogOfLines(ref, lines, limit) ==
    reflogBreak(reflogPushed(ref, lines, 1, Len(lines)), limit)

\* parseReflogText (part_000:684-728)
parseReflogText(ref, text, limit) == reflogOfLines(ref, splitLines(text), limit)

\* reflog ref name: path without the "logs/" prefix
reflogRef(path) ==
    IF startsWith(path, <<"l", "o", "g", "s", "/">>) THEN sliceFrom(path, 5) ELSE path

\* out.set(ref, parseReflogText(ref, txt, maxEntriesPerRef))
setReflog(out, ref, txt, maxEntriesPerRef) ==
    MapSet(out, ref, parseReflogText(ref, txt, maxEntriesPerRef))

\* the loop of parseReflogs over the paths under logs/refs
RECURSIVE reflogsFrom(_, _, _, _, _)
reflogsFrom(out, files, logPaths, i, maxEntriesPerRef) ==
    IF i > Len(logPaths) THEN out
    ELSE reflogsFrom(setReflog(out, reflogRef(logPaths[i]),
                               readText(MapGet(files.byPath, logPaths[i])),
                               maxEntriesPerRef),
                     files, logPaths, i + 1, maxEntriesPerRef)

\* the map after logs/HEAD; headLog is the file or null
setHeadLog(headLog, maxEntriesPerRef) ==
    IF headLog = Absent THEN <<>>
    ELSE setReflog(<<>>, <<"H", "E", "A", "D">>, readText(headLog[1]), maxEntriesPerRef)

\* parseReflogs (part_000:648-674): logs/HEAD first, then logs/refs/** in map order
parseReflogs(files, maxEntriesPerRef) ==
    reflogsFrom(setHeadLog(getFile(files, <<"l", "o", "g", "s", "/", "H", "E", "A", "D">>),
                           maxEntriesPerRef),
                files,
                listPaths(files, <<"l", "o", "g", "s", "/", "r", "e", "f", "s">>),
                1, maxEntriesPerRef)

(***************************************************************************)
(* Commit/event list + stats                                               *)
(***************************************************************************)

\* String(n) for a natural number
MsPerSecond == 1000

RECURSIVE natToString(_)
natToString(n) ==
    LET d == <<"0", "1", "2", "3", "4", "5", "6", "7", "8", "9">>[(n % 10) + 1]
    IN  IF n < 10 THEN <<d>> ELSE Append(natToString(n \div 10), d)

\* String(e.ts): the digits of the thousands, and of MsPerSecond after its 1
tsToString(ts) == natToString(ts) \o Tail(natToString(MsPerSecond))

\* a key that tells the refs apart: `${e.ref}|${e.newSha}|${e.ts}|${e.authorEmail}|${e.msg}`
eventKeyWithRef(e) ==
    e.ref \o <<"|">> \o e.newSha \o <<"|">> \o tsToString(e.ts) \o <<"|">> \o e.authorEmail
    \o <<"|">> \o e.msg

\* the dedup key `${e.newSha}|${e.ts}|${e.authorEmail}|${e.msg}` (part_000:743)
eventKey(e) ==
    e.newSha \o <<"|">> \o tsToString(e.ts) \o <<"|">> \o e.authorEmail \o <<"|">> \o e.msg

\* the entries in the order the two loops of buildCommitList visit them: the
\* lists of reflogs.values() one after the other
RECURSIVE visited(_, _)
visited(reflogs, i) ==
    IF i > Len(reflogs) THEN <<>> ELSE reflogs[i].v \o visited(reflogs, i + 1)

eventKeys(entries) == [j \in 1..Len(entries) |-> eventKey(entries[j])]

\* the places whose key no later place has: a later duplicate replaces the entry
lastSeen(keys) == {j \in 1..Len(keys) : \A x \in (j + 1)..Len(keys) : keys[x] # keys[j]}

\* if (seen.has(key)) continue: the places whose key no earlier place has
firstSeen(keys) == {j \in 1..Len(keys) : \A x \in 1..(j - 1) : keys[x] # keys[j]}

flattenOf(entries) == KeepAt(entries, firstSeen(eventKeys(entries)))

\* the deduplicated list before the sort (part_000:738-748)
flatten(reflogs) == flattenOf(visited(reflogs, 1))

\* the place of out[i] under a sort that turns the entries of one time stamp
\* around
sortPlaceTiesReversed(out, i) ==
    Cardinality({j \in 1..Len(out) :
                    \/ out[j].ts > out[i].ts
                    \/ out[j].ts = out[i].ts /\ j > i}) + 1

\* the place of out[i] after out.sort((a, b) => b.ts - a.ts): behind the
\* entries that sort before it and, Array.prototype.sort being stable, behind
\* the entries before it that compare equal
sortPlace(out, i) ==
    Cardinality({j \in 1..Len(out) :
                    \/ out[j].ts > out[i].ts
                    \/ out[j].ts = out[i].ts /\ j < i}) + 1

sortPlaces(out) == [i \in 1..Len(out) |-> sortPlace(out, i)]

sortedBy(out, places) ==
    [r \in 1..Len(out) |-> out[CHOOSE i \in 1..Len(out) : places[i] = r]]

\* out.sort((a, b) => b.ts - a.ts)
sortByTsDesc(out) == sortedBy(out, sortPlaces(out))

\* buildCommitList (part_000:734-753)
buildCommitList(reflogs) == sortByTsDesc(flatten(reflogs))

\* classifyReflogMessage from the trimmed, lower-cased message on
classifyLowered(s) ==
    LET run == {j \in 1..Len(s) :
                  \A i \in 1..j : s[i] \in LowerLetter \cup Digit \cup {"-"}}
        r   == IF run = {} THEN 0 ELSE SetMax(run)
        after == {i \in (r + 1)..Len(s) : s[i] \notin WhiteSpace}
    IN  IF startsWith(s, <<"c", "o", "m", "m", "i", "t">>) THEN <<"c", "o", "m", "m", "i", "t">>
        ELSE IF startsWith(s, <<"c", "h", "e", "c", "k", "o", "u", "t">>)
             THEN <<"c", "h", "e", "c", "k", "o", "u", "t">>
        ELSE IF startsWith(s, <<"m", "e", "r", "g", "e">>) THEN <<"m", "e", "r", "g", "e">>
        ELSE IF startsWith(s, <<"r", "e", "b", "a", "s", "e">>) THEN <<"r", "e", "b", "a", "s", "e">>
        ELSE IF startsWith(s, <<"r", "e", "s", "e", "t">>) THEN <<"r", "e", "s", "e", "t">>
        ELSE IF startsWith(s, <<"p", "u", "l", "l">>) THEN <<"p", "u", "l", "l">>
        ELSE IF startsWith(s, <<"f", "e", "t", "c", "h">>) THEN <<"f", "e", "t", "c", "h">>
        ELSE IF \/ startsWith(s, <<"c", "h", "e", "r", "r", "y", "-", "p", "i", "c", "k">>)
                \/ startsWith(s, <<"c", "h", "e", "r", "r", "y", "p", "i", "c", "k">>)
             THEN <<"c", "h", "e", "r", "r", "y", "-", "p", "i", "c", "k">>
        ELSE IF startsWith(s, <<"a", "m", "e", "n", "d">>) THEN <<"a", "m", "e", "n", "d">>
        ELSE IF r > 0 /\ after # {} /\ s[SetMin(after)] = ":" THEN SubSeq(s, 1, r)
        ELSE IF s # <<>> THEN <<"o", "t", "h", "e", "r">>
        ELSE <<"u", "n", "k", "n", "o", "w", "n">>

\* the classification of the message as written, upper case kept
classifyCaseSensitive(msg) == classifyLowered(trim(msg))

\* classifyReflogMessage (part_000:836-855)
classifyReflogMessage(msg) == classifyLowered(toLowerCase(trim(msg)))

\* the key of an author: n the trimmed name, e the trimmed, lower-cased email
authorKeyOf(n, e) ==
    IF n # <<>> THEN n \o <<" ", "<">> \o e \o <<">">>
    ELSE <<"<">> \o e \o <<">">>

\* formatAuthorKey (part_000:880-884)
formatAuthorKey(name, email) == authorKeyOf(trim(name), toLowerCase(trim(email)))

\* the text String(f) gives for the built-in function f of a name
nativeFunctionText(name) ==
    <<"f", "u", "n", "c", "t", "i", "o", "n", " ">> \o name
    \o <<"(", ")", " ", "{", " ", "[", "n", "a", "t", "i", "v", "e", " ", "c", "o", "d", "e",
         "]", " ", "}">>

\* what the object literal {} holds at key before anything is stored: nothing,
\* or the name of the function it inherits from Object.prototype
inheritedFunction(key) ==
    IF key = <<"c", "o", "n", "s", "t", "r", "u", "c", "t", "o", "r">>
    THEN Present(<<"O", "b", "j", "e", "c", "t">>)
    ELSE IF key \in {<<"t", "o", "S", "t", "r", "i", "n", "g">>,
                     <<"v", "a", "l", "u", "e", "O", "f">>,
                     <<"t", "o", "L", "o", "c", "a", "l", "e", "S", "t", "r", "i", "n", "g">>,
                     <<"h", "a", "s", "O", "w", "n", "P", "r", "o", "p", "e", "r", "t", "y">>,
                     <<"i", "s", "P", "r", "o", "t", "o", "t", "y", "p", "e", "O", "f">>}
    THEN Present(key)
    ELSE Absent

\* a number, and a string, as values of a Record<string, number> at run time
NumberValue(n) == [type |-> "number", number |-> n, string |-> <<>>]

StringValue(s) == [type |-> "string", number |-> 0, string |-> s]

\* h[key] = (h[key] ?? 0) + 1 done n times from what h holds at key: ?? takes 0
\* for undefined alone, and + 1 on a function appends "1" to its text
incremented(start, n) ==
    IF start = Absent THEN NumberValue(n)
    ELSE StringValue(nativeFunctionText(start[1]) \o [i \in 1..n |-> "1"])

\* h[key] = (h[key] ?? 0) + 1 for the keys of the events in turn, on h = {}
histogram(keys) ==
    [k \in {keys[i] : i \in 1..Len(keys)} |->
        incremented(inheritedFunction(k), Cardinality({i \in 1..Len(keys) : keys[i] = k}))]

MsPerDay == 86400000

\* Date.UTC(year, month, day) of a time stamp: the midnight that starts its UTC day
utcDay(ts) == (ts \div (MsPerDay \div MsPerSecond)) * (MsPerDay \div MsPerSecond)

\* computeActiveDays (part_000:819-830): undefined for no events
computeActiveDays(events) ==
    IF Len(events) = 0 THEN Absent
    ELSE Present(Cardinality({utcDay(events[i].ts) : i \in 1..Len(events)}))

\* the quotient cut to two decimals: Math.floor(n * 100) / 100
round2Floor(num, den) == (100 * num) \div den

\* round2 (part_000:876-878) of the quotient num / den, den > 0.  A number with
\* two decimals is kept as its count of hundredths: Math.round(n * 100) is
\* floor(n * 100 + 1/2), and the division by 100 is the unit.
round2(num, den) == (200 * num + den) \div (2 * den)

\* firstActivityTs with 0 for its start: Math.min(firstActivityTs ?? 0, e.ts)
firstActivityOrZero(commits) ==
    Present(SetMin({0} \cup {commits[i].ts : i \in 1..Len(commits)}))

\* firstActivityTs === undefined ? e.ts : Math.min(firstActivityTs, e.ts), for
\* the events in turn
firstActivity(commits) ==
    IF commits = <<>> THEN Absent
    ELSE Present(SetMin({commits[i].ts : i \in 1..Len(commits)}))

\* lastActivityTs === undefined ? e.ts : Math.max(lastActivityTs, e.ts), for
\* the events in turn
lastActivity(commits) ==
    IF commits = <<>> THEN Absent
    ELSE Present(SetMax({commits[i].ts : i \in 1..Len(commits)}))

authorKeys(commits) ==
    [i \in 1..Len(commits) |-> formatAuthorKey(commits[i].authorName, commits[i].authorEmail)]

eventTypes(commits) ==
    [i \in 1..Len(commits) |-> classifyReflogMessage(commits[i].msg)]

\* the number of refs named as the prefix is
CountKeysEqual(refs, prefix) ==
    Cardinality({i \in 1..Len(refs) : refs[i].k = prefix})

CountKeys(refs, prefix) ==
    Cardinality({i \in 1..Len(refs) : startsWith(refs[i].k, prefix)})

\* the record computeStats returns, activeDays being what computeActiveDays
\* returned
statsRecord(totalFiles, totalBytes, refs, commits, activeDays) ==
    [totalFiles      |-> totalFiles,
     totalBytes      |-> totalBytes,
     totalRefs       |-> Len(refs),
     branches        |-> CountKeys(refs, <<"r", "e", "f", "s", "/", "h", "e", "a", "d", "s", "/">>),
     tags            |-> CountKeys(refs, <<"r", "e", "f", "s", "/", "t", "a", "g", "s", "/">>),
     remotes         |-> CountKeys(refs, <<"r", "e", "f", "s", "/", "r", "e", "m", "o", "t", "e", "s", "/">>),
     events          |-> Len(commits),
     firstActivityTs |-> firstActivity(commits),
     lastActivityTs  |-> lastActivity(commits),
     activeDays      |-> activeDays,
     avgEventsPerDay |-> IF activeDays # Absent /\ activeDays[1] > 0
                         THEN Present(round2(Len(commits), activeDays[1]))
                         ELSE Absent,
     authors         |-> histogram(authorKeys(commits)),
     eventTypes      |-> histogram(eventTypes(commits))]

\* computeStats (part_000:755-817)
computeStats(totalFiles, totalBytes, refs, reflogs, commits) ==
    statsRecord(totalFiles, totalBytes, refs, commits, computeActiveDays(commits))

(***************************************************************************)
(* The timeline filter (features/timeline/timelineView.ts)                 *)
(***************************************************************************)

\* (s || "").trim().toLowerCase()
norm(s) == toLowerCase(trim(s))

\* s.includes(part)
includes(s, part) ==
    \E i \in 1..(Len(s) - Len(part) + 1) : SubSeq(s, i, i + Len(part) - 1) = part

\* n < 10 ? `0${n}` : String(n)
pad2(n) == IF n < 10 THEN <<"0">> \o natToString(n) ELSE natToString(n)

\* the year, month and day of the day that many days after 1970-01-01
civilOf(days) ==
    LET z   == days + 719468
        era == z \div 146097
        doe == z - era * 146097
        yoe == (doe - doe \div 1460 + doe \div 36524 - doe \div 146096) \div 365
        doy == doe - (365 * yoe + yoe \div 4 - yoe \div 100)
        mp  == (5 * doy + 2) \div 153
        m   == IF mp < 10 THEN mp + 3 ELSE mp - 9
    IN  [year  |-> yoe + era * 400 + (IF m <= 2 THEN 1 ELSE 0),
         month |-> m,
         day   |-> doy - (153 * mp + 2) \div 5 + 1]

\* formatDay: `${yyyy}-${mm}-${dd}` of new Date(ts) in the local time, zone
\* being what the local time is ahead of UTC
formatDay(ts, zone) ==
    IF ts <= 0 THEN <<>>
    ELSE LET c == civilOf((ts + zone) \div (MsPerDay \div MsPerSecond))
         IN  natToString(c.year) \o <<"-">> \o pad2(c.month) \o <<"-">> \o pad2(c.day)

\* the text the search looks in
searchBlob(e, zone) ==
    toLowerCase(norm(e.msg) \o <<" ">>
                \o norm(e.authorName \o <<" ">> \o e.authorEmail) \o <<" ">>
                \o norm(e.ref) \o <<" ">>
                \o norm(classifyReflogMessage(e.msg)) \o <<" ">>
                \o norm(e.newSha \o <<" ">> \o e.oldSha) \o <<" ">>
                \o (IF e.ts # 0 THEN formatDay(e.ts, zone) ELSE <<>>))

\* the action filter that keeps the events of the class written in the filter only
actionMatchesExactly(e, action) ==
    action # <<>> => norm(classifyReflogMessage(e.msg)) = action

\* if (action && !act.includes(action)) return false
actionMatches(e, action) ==
    action # <<>> => includes(norm(classifyReflogMessage(e.msg)), action)

\* the callback of events.filter
filterKeeps(e, search, author, action, ref, zone) ==
    /\ author # <<>> => includes(norm(e.authorName \o <<" ">> \o e.authorEmail), author)
    /\ actionMatches(e, action)
    /\ ref # <<>> => includes(norm(e.ref), ref)
    /\ search # <<>> => includes(searchBlob(e, zone), search)

\* filterEvents (timelineView.ts), the local time being zone ahead of UTC
filterEvents(events, q, zone) ==
    IF norm(q.timelineSearch) = <<>> /\ norm(q.timelineAuthor) = <<>>
       /\ norm(q.timelineAction) = <<>> /\ norm(q.timelineRef) = <<>>
    THEN events
    ELSE SelectSeq(events,
                   LAMBDA e : filterKeeps(e, norm(q.timelineSearch), norm(q.timelineAuthor),
                                          norm(q.timelineAction), norm(q.timelineRef), zone))

\* createInitialState: query (store.ts:205-210)
NoQuery ==
    [timelineSearch |-> <<>>, timelineAuthor |-> <<>>, timelineAction |-> <<>>,
     timelineRef |-> <<>>]

\* patchQuery({ timelineAction: act, timelineSearch: "", timelineAuthor: "",
\* timelineRef: "" }) of the dashboard's action rows (part_001:239-247)
actionQuery(q, act) ==
    [q EXCEPT !.timelineAction = act, !.timelineSearch = <<>>, !.timelineAuthor = <<>>,
              !.timelineRef = <<>>]

(***************************************************************************)
(* One run of analyzeGitIndex                                              *)
(***************************************************************************)

\* A File of the byte index is [text, size, src]: the text it holds, its size in
\* bytes, and src, the lines and tokens the text was written from.  The analyzer
\* reads text and size only; src is what the properties are stated over.

VARIABLES
    input,       \* the AnalyzeInput: [index, identity, options]
    run,         \* the run: its position and what it has parsed so far
    otherInput,  \* the AnalyzeInput of a second call of analyzeGitIndex
    otherRun,    \* the second call, NoRun when it was not made
    live,        \* the live-tracking controller, its store, timers and refreshes
    ui           \* the store of the page, its subscriptions and its loader calls

vars == <<input, run, otherInput, otherRun, live, ui>>

\* what a step of the first call leaves as it is
others == <<input, otherInput, otherRun, live, ui>>

DefaultMaxReflogEntries == 10000

MinReflogEntries == 100

MaxReflogEntries == 200000

NoResult == [kind |-> "none", value |-> <<>>]

\* the state of a call before its first statement
NewRun ==
    [pc      |-> "start",
     options |-> [includeRawConfig |-> FALSE, maxReflogEntriesPerRef |-> 0],
     files   |-> [byPath |-> <<>>, totalBytes |-> 0],
     head    |-> NoHead,
     refs    |-> <<>>,
     config  |-> Absent,
     reflogs |-> <<>>,
     thrown  |-> Absent,
     result  |-> NoResult]

\* the state of a call that was not made
NoRun == [NewRun EXCEPT !.pc = "none"]

\* the first statements of a call that took the normalized index of the call
\* before it from a cache kept between the calls
startedFromCache(inp, r) ==
    [r EXCEPT
       !.pc = "head",
       !.options =
           [includeRawConfig |->
                IF inp.options.includeRawConfig = Absent THEN FALSE
                ELSE inp.options.includeRawConfig[1],
            maxReflogEntriesPerRef |->
                clampInt(IF inp.options.maxReflogEntriesPerRef = Absent
                         THEN DefaultMaxReflogEntries
                         ELSE inp.options.maxReflogEntriesPerRef[1],
                         MinReflogEntries, MaxReflogEntries)],
       !.files = IF run.pc \in {"start", "none"} THEN normalizeIndex(inp.index)
                 ELSE run.files]

\* analyzeGitIndex up to its first await (part_000:365-373): the options with
\* their defaults, and the normalized index
started(inp, r) ==
    [r EXCEPT
       !.pc = "head",
       !.options =
           [includeRawConfig |->
                IF inp.options.includeRawConfig = Absent THEN FALSE
                ELSE inp.options.includeRawConfig[1],
            maxReflogEntriesPerRef |->
                clampInt(IF inp.options.maxReflogEntriesPerRef = Absent
                         THEN DefaultMaxReflogEntries
                         ELSE inp.options.maxReflogEntriesPerRef[1],
                         MinReflogEntries, MaxReflogEntries)],
       !.files = normalizeIndex(inp.index)]

\* the snapshot analyzeGitIndex returns (part_000:390-407)
snapshotOf(identity, r, commits) ==
    [identity |-> identity,
     head     |-> r.head,
     refs     |-> r.refs,
     reflogs  |-> r.reflogs,
     config   |-> r.config,
     commits  |-> commits,
     stats    |-> computeStats(Len(r.files.byPath), r.files.totalBytes,
                               r.refs, r.reflogs, commits)]

\* the call of the input inp at r after the statements up to its next await:
\* the locals of a call are its own, r stands for them
stepOf(inp, r) ==
    CASE r.pc = "start" -> started(inp, r)
      \* const head = await parseHead(files)
      [] r.pc = "head" -> [r EXCEPT !.pc = "packed", !.head = parseHead(r.files)]
      \* parseRefs, 1) packed-refs
      [] r.pc = "packed" ->
             [r EXCEPT
                !.pc = "loose",
                !.refs = setPackedFile(getFile(r.files,
                             <<"p", "a", "c", "k", "e", "d", "-", "r", "e", "f", "s">>))]
      \* parseRefs, 2) loose refs inside refs/**
      [] r.pc = "loose" -> [r EXCEPT !.pc = "specials", !.refs = setLoose(r.refs, r.files, 1)]
      \* parseRefs, 3) the special refs; parseRefs returns
      [] r.pc = "specials" ->
             [r EXCEPT !.pc = "config", !.refs = setSpecials(r.refs, r.files, 1)]
      \* const config = await parseConfig(files, options.includeRawConfig)
      [] r.pc = "config" ->
             [r EXCEPT
                !.pc = "reflogs",
                !.config = parseConfig(r.files, r.options.includeRawConfig)]
      \* const reflogs = await parseReflogs(files, options.maxReflogEntriesPerRef)
      [] r.pc = "reflogs" ->
             [r EXCEPT
                !.pc = "build",
                !.reflogs = parseReflogs(r.files, r.options.maxReflogEntriesPerRef)]
      \* buildCommitList, computeStats and the return of the snapshot (part_000:388-407)
      [] r.pc = "build" ->
             [r EXCEPT
                !.pc = "done",
                !.result = [kind  |-> "snapshot",
                            value |-> snapshotOf(inp.identity, r,
                                                 buildCommitList(r.reflogs))]]

Start ==
    /\ run.pc = "start"
    /\ run' = stepOf(input, run)
    /\ UNCHANGED others

ParseHead ==
    /\ run.pc = "head"
    /\ run' = stepOf(input, run)
    /\ UNCHANGED others

ReadPacked ==
    /\ run.pc = "packed"
    /\ run' = stepOf(input, run)
    /\ UNCHANGED others

ReadLoose ==
    /\ run.pc = "loose"
    /\ run' = stepOf(input, run)
    /\ UNCHANGED others

ReadSpecials ==
    /\ run.pc = "specials"
    /\ run' = stepOf(input, run)
    /\ UNCHANGED others

ParseConfig ==
    /\ run.pc = "config"
    /\ run' = stepOf(input, run)
    /\ UNCHANGED others

ParseReflogs ==
    /\ run.pc = "reflogs"
    /\ run' = stepOf(input, run)
    /\ UNCHANGED others

Build ==
    /\ run.pc = "build"
    /\ run' = stepOf(input, run)
    /\ UNCHANGED others

\* whether the stage the call is at reads the text of at least one file
readsAFile(r) ==
    \/ /\ r.pc = "head"
       /\ getFile(r.files, <<"H", "E", "A", "D">>) # Absent
    \/ /\ r.pc = "packed"
       /\ getFile(r.files, <<"p", "a", "c", "k", "e", "d", "-", "r", "e", "f", "s">>) # Absent
    \/ /\ r.pc = "loose"
       /\ \E i \in 1..Len(r.files.byPath) :
              startsWith(r.files.byPath[i].k, <<"r", "e", "f", "s", "/">>)
    \/ /\ r.pc = "specials"
       /\ \E i \in 1..Len(specials) : getFile(r.files, specials[i]) # Absent
    \/ /\ r.pc = "config"
       /\ getFile(r.files, <<"c", "o", "n", "f", "i", "g">>) # Absent
    \/ /\ r.pc = "reflogs"
       /\ \/ getFile(r.files, <<"l", "o", "g", "s", "/", "H", "E", "A", "D">>) # Absent
          \/ listPaths(r.files, <<"l", "o", "g", "s", "/", "r", "e", "f", "s">>) # <<>>

ReadsAFile == readsAFile(run)

\* the errors file.text() rejects with
ReadErrors == {"NotFoundError", "NotReadableError"}

\* the error thrown without its cause
analyzeErrorNoCause(err) ==
    [name |-> "GitAnalyzeError", message |-> "Failed to analyze .git index.", cause |-> Absent]

\* new GitAnalyzeError("Failed to analyze .git index.", err) (part_000:334-339, 409)
analyzeError(err) ==
    [name    |-> "GitAnalyzeError",
     message |-> "Failed to analyze .git index.",
     cause   |-> Present(err)]

\* the call at r after file.text() rejected with err
failedOf(r, err) ==
    [r EXCEPT
       !.pc = "failed",
       !.thrown = Present(err),
       !.result = [kind |-> "error", value |-> analyzeError(err)]]

\* file.text() rejects: the catch of analyzeGitIndex wraps the error and throws
\* (part_000:408-410); thrown records what the await raised
ReadFails ==
    /\ ReadsAFile
    /\ \E err \in ReadErrors : run' = failedOf(run, err)
    /\ UNCHANGED others

Next ==
    \/ Start
    \/ ParseHead
    \/ ReadPacked
    \/ ReadLoose
    \/ ReadSpecials
    \/ ParseConfig
    \/ ParseReflogs
    \/ Build
    \/ ReadFails

(***************************************************************************)
(* A second call of analyzeGitIndex, interleaved with the first            *)
(***************************************************************************)

\* the second call runs its statements up to its next await
OtherSteps ==
    /\ otherRun.pc \in {"start", "head", "packed", "loose", "specials", "config",
                        "reflogs", "build"}
    /\ otherRun' = stepOf(otherInput, otherRun)
    /\ UNCHANGED <<input, run, otherInput, live, ui>>

\* file.text() rejects in the second call
OtherReadFails ==
    /\ readsAFile(otherRun)
    /\ \E err \in ReadErrors : otherRun' = failedOf(otherRun, err)
    /\ UNCHANGED <<input, run, otherInput, live, ui>>

NextTwo == Next \/ OtherSteps \/ OtherReadFails

(***************************************************************************)
(* The live-tracking controller (features/live/liveTracking.ts)            *)
(***************************************************************************)

\* live holds the closure variables of createLiveTrackingController
\* (subscribed stands for unsubscribe # null, timerId 0 for null), the slice
\* of the store the controller selects, whether getDirectoryHandle returns a
\* handle, the timers window.setTimeout holds, the calls of
\* refreshFromDirectoryHandle that have not resolved, and, to state the
\* properties, whether stop() was the last call of the controller's interface,
\* the token of the loop startLoop started last and stopLoop has not stopped,
\* and what the latest step did.

MinPollMs == 500

MaxPollMs == 60000

DefaultPollMs == 3000

MaxConsecutiveErrors == 10

BackoffStepMs == 1000

MaxBackoffMs == 10000

\* the loops a behaviour starts and stops, and the timers pending at a time
MaxGen == 4

MaxTimers == 3

NoEffect ==
    [refreshed |-> FALSE, scheduled |-> FALSE, dispatched |-> FALSE, token |-> 0,
     restarted |-> FALSE, resolved |-> "none"]

\* createInitialState (store.ts:223-228) and the controller as constructed
\* (liveTracking.ts:42-50)
NewLive ==
    [subscribed        |-> FALSE,
     timerId           |-> 0,
     running           |-> FALSE,
     gen               |-> 0,
     consecutiveErrors |-> 0,
     store             |-> [enabled |-> FALSE, pollMs |-> DefaultPollMs, source |-> "null"],
     handle            |-> FALSE,
     timers            |-> {},
     inflight          |-> {},
     stopped           |-> FALSE,
     loopToken         |-> 0,
     last              |-> NoEffect]

\* shouldRunLoop (liveTracking.ts:203-210)
shouldRunLoop(state, handle) ==
    IF ~state.enabled THEN FALSE
    ELSE IF state.source # "dir-handle" THEN FALSE
    ELSE handle

\* the id window.setTimeout returns: one that no pending timer has
freeTimer(l) ==
    CHOOSE i \in 1..(Cardinality(l.timers) + 1) :
        /\ \A t \in l.timers : t.id # i
        /\ \A j \in 1..(i - 1) : \E t \in l.timers : t.id = j

\* window.setTimeout(callback, delay): the timer runs the tick or the backoff
\* callback of the token; timerId is assigned by the caller
setTimeout(l, kind, token, delay) ==
    [l EXCEPT
       !.timers = @ \cup {[id |-> freeTimer(l), kind |-> kind, token |-> token, delay |-> delay]},
       !.timerId = freeTimer(l),
       !.last.scheduled = TRUE]

\* scheduleNextTick up to the return of window.setTimeout (liveTracking.ts:133-138, 193)
scheduleNextTick(l, token, immediate) ==
    setTimeout(l, "tick", token,
               IF immediate THEN 0 ELSE clampInt(l.store.pollMs, MinPollMs, MaxPollMs))

\* stopLoop that leaves the timer pending
stopLoopKeepTimer(l) ==
    [l EXCEPT
       !.running = FALSE,
       !.gen = @ + 1,
       !.consecutiveErrors = 0,
       !.timerId = 0,
       !.loopToken = 0]

\* stopLoop (liveTracking.ts:122-131)
stopLoop(l) ==
    [l EXCEPT
       !.running = FALSE,
       !.gen = @ + 1,
       !.consecutiveErrors = 0,
       !.timers = IF l.timerId # 0 THEN {t \in @ : t.id # l.timerId} ELSE @,
       !.timerId = 0,
       !.loopToken = 0]

\* startLoop (liveTracking.ts:103-120)
startLoop(l) ==
    IF l.running THEN l
    ELSE IF ~l.handle THEN l
    ELSE IF l.store.source # "dir-handle" THEN l
    ELSE scheduleNextTick([l EXCEPT
                             !.running = TRUE,
                             !.consecutiveErrors = 0,
                             !.gen = @ + 1,
                             !.loopToken = l.gen + 1],
                          l.gen + 1, TRUE)

\* restartLoop (liveTracking.ts:98-101)
restartLoop(l) == startLoop(stopLoop(l))

\* the listener of the subscription (liveTracking.ts:67-85), the store holding
\* next already
onChange(l, next, prev) ==
    IF ~(next.enabled # prev.enabled \/ next.pollMs # prev.pollMs \/ next.source # prev.source)
    THEN l
    ELSE IF shouldRunLoop(l.store, l.handle) THEN restartLoop(l)
    ELSE stopLoop(l)

\* store.dispatch of an action that makes next of the slice (store.ts:312-330):
\* the reducer returns a new state, and Object.is tells every new selection
\* from the last one
dispatch(l, next) ==
    IF l.subscribed THEN onChange([l EXCEPT !.store = next], next, l.store)
    ELSE [l EXCEPT !.store = next]

\* store.dispatch(actions.setMessage(...)): the slice is as it was, the
\* listener returns at once
dispatchMessage(l) == [l EXCEPT !.last.dispatched = TRUE]

\* the controller within the generations and the pending timers explored
Fits(l) == l.gen <= MaxGen /\ Cardinality(l.timers) <= MaxTimers

\* start() (liveTracking.ts:56-88): fireImmediately calls the listener with the
\* selection as both arguments (store.ts:352-354)
StartCtl ==
    /\ live' = IF live.subscribed THEN [live EXCEPT !.stopped = FALSE, !.last = NoEffect]
               ELSE onChange([live EXCEPT !.subscribed = TRUE, !.stopped = FALSE,
                                          !.last = [NoEffect EXCEPT !.restarted = live.stopped]],
                             live.store, live.store)
    /\ UNCHANGED <<input, run, otherInput, otherRun, ui>>

\* stop() (liveTracking.ts:90-96)
StopCtl ==
    /\ live' = [stopLoop([live EXCEPT !.last = NoEffect]) EXCEPT
                  !.subscribed = FALSE,
                  !.stopped = TRUE]
    /\ Fits(live')
    /\ UNCHANGED <<input, run, otherInput, otherRun, ui>>

\* the slices the actions of the store give
PollInputs == {100, DefaultPollMs}

Sources == {"null", "file-input", "dir-handle"}

\* live/setEnabled (store.ts:268-269)
SetEnabled ==
    /\ \E b \in BOOLEAN :
           live' = dispatch([live EXCEPT !.last = NoEffect],
                            [live.store EXCEPT !.enabled = b])
    /\ Fits(live')
    /\ UNCHANGED <<input, run, otherInput, otherRun, ui>>

\* live/setPollInterval (store.ts:271-275)
SetPollInterval ==
    /\ \E p \in PollInputs :
           live' = dispatch([live EXCEPT !.last = NoEffect],
                            [live.store EXCEPT !.pollMs = clampInt(p, MinPollMs, MaxPollMs)])
    /\ Fits(live')
    /\ UNCHANGED <<input, run, otherInput, otherRun, ui>>

\* repo/setSnapshot (store.ts:265-266) of a snapshot of the source, or of null
SetSnapshot ==
    /\ \E s \in Sources :
           live' = dispatch([live EXCEPT !.last = NoEffect],
                            [live.store EXCEPT !.source = s])
    /\ Fits(live')
    /\ UNCHANGED <<input, run, otherInput, otherRun, ui>>

\* activeDirHandle is assigned (part_000:73, 91, 111)
SetHandle ==
    /\ \E b \in BOOLEAN : live' = [live EXCEPT !.handle = b, !.last = NoEffect]
    /\ live'.handle # live.handle
    /\ UNCHANGED <<input, run, otherInput, otherRun, ui>>

\* the callback of a tick timer up to its await or return (liveTracking.ts:138-162)
tickFired(l, token) ==
    IF ~l.running \/ token # l.gen THEN l
    ELSE IF ~l.handle THEN dispatchMessage(stopLoop(l))
    ELSE IF l.store.source # "dir-handle" THEN stopLoop(l)
    ELSE [l EXCEPT
            !.inflight = @ \cup {[token |-> token]},
            !.last.refreshed = TRUE,
            !.last.token = token]

\* a timer fires: the tick callback, or the backoff callback (liveTracking.ts:180-183)
TimerFires ==
    /\ \E t \in live.timers :
           live' = IF t.kind = "tick"
                   THEN tickFired([live EXCEPT !.timers = @ \ {t}, !.last = NoEffect], t.token)
                   ELSE scheduleNextTick([live EXCEPT !.timers = @ \ {t}, !.last = NoEffect],
                                         t.token, TRUE)
    /\ Fits(live')
    /\ UNCHANGED <<input, run, otherInput, otherRun, ui>>

\* the tick callback after its await with an error count that is not capped
refreshedNoCap(l, token, ok) ==
    IF ~ok
    THEN LET errors == l.consecutiveErrors + 1
             backoffMs == IF errors * BackoffStepMs < MaxBackoffMs
                          THEN errors * BackoffStepMs ELSE MaxBackoffMs
             counted == [l EXCEPT !.consecutiveErrors = errors]
         IN  setTimeout(IF errors \in {1, 3, 5} THEN dispatchMessage(counted) ELSE counted,
                        "backoff", token, backoffMs)
    ELSE scheduleNextTick([l EXCEPT !.consecutiveErrors = 0], token, FALSE)

\* the tick callback after its await, res.ok being ok (liveTracking.ts:164-192)
refreshed(l, token, ok) ==
    IF ~ok
    THEN LET errors == IF l.consecutiveErrors + 1 < MaxConsecutiveErrors
                       THEN l.consecutiveErrors + 1 ELSE MaxConsecutiveErrors
             backoffMs == IF errors * BackoffStepMs < MaxBackoffMs
                          THEN errors * BackoffStepMs ELSE MaxBackoffMs
             counted == [l EXCEPT !.consecutiveErrors = errors]
         IN  setTimeout(IF errors \in {1, 3, 5} THEN dispatchMessage(counted) ELSE counted,
                        "backoff", token, backoffMs)
    ELSE scheduleNextTick([l EXCEPT !.consecutiveErrors = 0], token, FALSE)

\* refreshFromDirectoryHandle resolves
RefreshResolves ==
    /\ \E f \in live.inflight, ok \in BOOLEAN :
           live' = refreshed([live EXCEPT !.inflight = @ \ {f},
                                          !.last = [NoEffect EXCEPT
                                                      !.token = f.token,
                                                      !.resolved = IF ok THEN "ok" ELSE "failed"]],
                             f.token, ok)
    /\ Fits(live')
    /\ UNCHANGED <<input, run, otherInput, otherRun, ui>>

NextLive ==
    \/ StartCtl
    \/ StopCtl
    \/ SetEnabled
    \/ SetPollInterval
    \/ SetSnapshot
    \/ SetHandle
    \/ TimerFires
    \/ RefreshResolves

(***************************************************************************)
(* The store (app/store.ts)                                                *)
(***************************************************************************)

\* ui holds the state of createStore and its subscriptions in the order they
\* were added, whether structuredClone is there to call, the directory handle
\* of the page and the loader calls that have not returned.  A selection that
\* is an object of the state is told from its copies by a flag: lastSame says
\* that lastSelected is the very object the state holds now.  To state the
\* properties, a subscription also holds the value its selector returned when
\* it was last stored (selVal, selSame), and what the latest dispatch did to
\* it.

DefaultPerPage == 25

MinPerPage == 5

MaxPerPage == 250

\* the renders one dispatch may nest
MaxRenders == 3

NullRepo == [null |-> TRUE, source |-> "null", commits |-> <<>>]

\* createInitialState (store.ts:198-230)
createInitialState ==
    [theme    |-> "dark",
     view     |-> "dashboard",
     status   |-> "idle",
     message  |-> [kind |-> "muted"],
     query    |-> NoQuery,
     timeline |-> [page |-> 0, perPage |-> DefaultPerPage],
     files    |-> 0,
     repo     |-> NullRepo,
     live     |-> [enabled |-> FALSE, pollIntervalMs |-> DefaultPollMs, lastTickAt |-> 0]]

\* setTimelinePage that stores the page as it is given
pageAsGiven(page) == page

\* Math.max(0, action.page) (store.ts:254)
maxZero(page) == IF page > 0 THEN page ELSE 0

\* reducer (store.ts:236-287)
reducer(state, a) ==
    CASE a.type = "ui/setTheme" -> [state EXCEPT !.theme = a.theme]
      [] a.type = "ui/setView" -> [state EXCEPT !.view = a.view]
      [] a.type = "ui/setStatus" -> [state EXCEPT !.status = a.status]
      [] a.type = "ui/setMessage" -> [state EXCEPT !.message = a.message]
      [] a.type = "ui/setQuery" -> [state EXCEPT !.query = a.patch]
      [] a.type = "ui/setTimelinePage" ->
            [state EXCEPT !.timeline.page = maxZero(a.page)]
      [] a.type = "ui/setTimelinePerPage" ->
            [state EXCEPT !.timeline.perPage = clampInt(a.perPage, MinPerPage, MaxPerPage),
                          !.timeline.page = 0]
      [] a.type = "files/setIndex" -> [state EXCEPT !.files = a.index]
      [] a.type = "repo/setSnapshot" -> [state EXCEPT !.repo = a.snapshot]
      [] a.type = "live/setEnabled" -> [state EXCEPT !.live.enabled = a.enabled]
      [] a.type = "live/setPollInterval" ->
            [state EXCEPT !.live.pollIntervalMs =
                              clampInt(a.pollIntervalMs, MinPollMs, MaxPollMs)]
      [] a.type = "live/tick" -> [state EXCEPT !.live.lastTickAt = a.at]

\* the subscriptions followed: of selectors.theme (part_000:160), of the
\* message (part_002:57), of the application's rendering (part_000:44) and of
\* the timeline view (timelineView.ts mount)
SubKinds == {"theme", "message", "app", "timeline"}

\* what the selector of the subscription returns
select(kind, state) ==
    CASE kind = "theme" -> state.theme
      [] kind = "message" -> state.message
      [] kind = "app" -> [theme |-> state.theme, view |-> state.view, status |-> state.status,
                          message |-> state.message, liveEnabled |-> state.live.enabled,
                          livePollMs |-> state.live.pollIntervalMs]
      [] kind = "timeline" -> [commits |-> state.repo.commits, query |-> state.query,
                               paging |-> state.timeline, status |-> state.status]

\* the selector builds a new object at every call
Fresh(kind) == kind \in {"app", "timeline"}

\* Object.is(a, b) of a selection a and a stored value b (store.ts:340): false
\* for a new object, the comparison of the values for a string, and for an
\* object of the state whether b is that object
objectIs(kind, a, b, same) ==
    IF Fresh(kind) THEN FALSE
    ELSE IF kind = "theme" THEN a = b
    ELSE same

\* safeClone (store.ts:430-438): whether its result is the object it was given
cloneIsSame(canClone) == ~canClone

NewSub(kind, state, canClone) ==
    [kind      |-> kind,
     lastVal   |-> select(kind, state),
     lastSame  |-> cloneIsSame(canClone),
     selVal    |-> select(kind, state),
     selSame   |-> TRUE,
     called    |-> FALSE,
     unchanged |-> FALSE,
     prevArg   |-> select(kind, state),
     prevWas   |-> select(kind, state)]

NoAction == [type |-> "none"]

\* a call of a loader: where it waits, what it returned and, to state the
\* properties, the snapshot of the store when it began and whether another
\* handler has set the snapshot since
NoCall == [pc |-> "none", atStart |-> NullRepo, result |-> "none", interfered |-> FALSE]

NewUi ==
    [state       |-> createInitialState,
     subs        |-> <<>>,
     canClone    |-> TRUE,
     lastAction  |-> NoAction,
     renders     |-> 0,
     corrections |-> 0,
     overflow    |-> FALSE,
     handle      |-> FALSE,
     refresh     |-> NoCall,
     load        |-> NoCall,
     unloaded    |-> FALSE,
     op          |-> "none"]

\* the reducer replaces the object the subscription selects
replaces(a, kind) == kind = "message" /\ a.type = "ui/setMessage"

\* the state after the reducer (store.ts:313-319)
reduced(u, a) ==
    [u EXCEPT
       !.state = reducer(u.state, a),
       !.subs = [i \in DOMAIN u.subs |->
                    IF replaces(a, u.subs[i].kind)
                    THEN [u.subs[i] EXCEPT !.lastSame = FALSE, !.selSame = FALSE]
                    ELSE u.subs[i]]]

\* the subscription after the test of the loop (store.ts:323-327), the
\* listener not yet called
examined(sub, state, canClone) ==
    LET nextSel == select(sub.kind, state)
        was     == objectIs(sub.kind, nextSel, sub.selVal, sub.selSame)
    IN  IF ~objectIs(sub.kind, nextSel, sub.lastVal, sub.lastSame)
        THEN [sub EXCEPT
                !.lastVal = nextSel,
                !.lastSame = cloneIsSame(canClone),
                !.selVal = nextSel,
                !.selSame = TRUE,
                !.called = TRUE,
                !.unchanged = was,
                !.prevArg = sub.lastVal,
                !.prevWas = sub.selVal]
        ELSE [sub EXCEPT !.called = FALSE, !.unchanged = was]

\* Math.ceil(n / d) for n >= 0 and d > 0
ceilDiv(n, d) == (n + d - 1) \div d

\* totalPages of render (timelineView.ts render), the local time being UTC
totalPages(state) ==
    LET filtered == filterEvents(state.repo.commits, state.query, 0)
        perPage  == clampInt(state.timeline.perPage, 1, 10000)
        pages    == ceilDiv(Len(filtered), perPage)
    IN  IF pages > 1 THEN pages ELSE 1

\* desiredPage that may be one past the last page
desiredPageTo(state) == clampInt(state.timeline.page, 0, totalPages(state))

\* desiredPage of render: clampInt(state.timeline.page, 0, totalPages - 1)
desiredPage(state) == clampInt(state.timeline.page, 0, totalPages(state) - 1)

RECURSIVE storeDispatch(_, _, _)
RECURSIVE notify(_, _, _)

\* render of the timeline view up to its dispatch or its return; fuel is the
\* renders left to nest
render(u, fuel) ==
    LET r == [u EXCEPT !.renders = @ + 1]
    IN  IF desiredPage(u.state) # u.state.timeline.page
        THEN IF fuel = 0 THEN [r EXCEPT !.overflow = TRUE]
             ELSE storeDispatch([r EXCEPT !.corrections = @ + 1],
                                [type |-> "ui/setTimelinePage", page |-> desiredPage(u.state)],
                                fuel - 1)
        ELSE r

\* the loop over the subscriptions from the i-th on (store.ts:322-329)
notify(u, i, fuel) ==
    IF i > Len(u.subs) THEN u
    ELSE LET sub  == examined(u.subs[i], u.state, u.canClone)
             told == [u EXCEPT !.subs[i] = sub]
         IN  notify(IF sub.called /\ sub.kind = "timeline" THEN render(told, fuel) ELSE told,
                    i + 1, fuel)

\* store.dispatch(a) (store.ts:312-330); every case of the reducer returns a
\* new state
storeDispatch(u, a, fuel) == notify(reduced(u, a), 1, fuel)

\* store.subscribe (store.ts:332-359) of a subscription not yet there; the
\* timeline view subscribes with fireImmediately and renders
subscribe(u, kind) ==
    LET added == [u EXCEPT !.subs = Append(@, NewSub(kind, u.state, u.canClone))]
    IN  IF kind = "timeline" THEN render(added, MaxRenders) ELSE added

\* the page before a handler runs
atHandler(u, a, op) ==
    [u EXCEPT
       !.lastAction = a,
       !.renders = 0,
       !.corrections = 0,
       !.op = op,
       !.subs = [i \in DOMAIN u.subs |-> [u.subs[i] EXCEPT !.called = FALSE]]]

Subscribed(u, kind) == \E i \in DOMAIN u.subs : u.subs[i].kind = kind

Themes == {"dark", "light"}

\* the numbers the actions carry
PageInputs == {-3, 0, 2, 1000000}

PerPageInputs == {-1, 5, 250, 100000}

IntervalInputs == {-5, 500, DefaultPollMs, 60001}

StoreActions ==
    {[type |-> "ui/setTheme", theme |-> t] : t \in Themes}
    \cup {[type |-> "ui/setMessage", message |-> [kind |-> k]] : k \in {"ok"}}
    \cup {[type |-> "ui/setTimelinePage", page |-> p] : p \in PageInputs}
    \cup {[type |-> "ui/setTimelinePerPage", perPage |-> n] : n \in PerPageInputs}
    \cup {[type |-> "live/setPollInterval", pollIntervalMs |-> n] : n \in IntervalInputs}

\* a view or a control subscribes
Subscribes ==
    /\ \E kind \in {"theme", "message", "app"} :
           /\ ~Subscribed(ui, kind)
           /\ ui' = subscribe(atHandler(ui, NoAction, "subscribe"), kind)
    /\ UNCHANGED <<input, run, otherInput, otherRun, live>>

\* a handler dispatches an action
Dispatches ==
    /\ \E a \in StoreActions : ui' = storeDispatch(atHandler(ui, a, "dispatch"), a, MaxRenders)
    /\ UNCHANGED <<input, run, otherInput, otherRun, live>>

NextStore == Subscribes \/ Dispatches

(***************************************************************************)
(* The inputs: byte indexes written from lines and tokens                  *)
(***************************************************************************)

\* a run of n equal characters
Repeat(c, n) == [i \in 1..n |-> c]

IdA == <<"a", "b", "c", "1", "2", "3", "4">>

IdB == <<"1", "2", "3", "4", "5", "6", "7">>

IdUpper == <<"A", "B", "C", "D", "E", "F", "0">>

\* six hex digits: one short of an id
IdShort == <<"a", "b", "c", "1", "2", "3">>

\* seven characters that are no hex digits
IdNonHex == <<"g", "h", "i", "j", "k", "l", "m">>

\* a full id, and a run of hex digits one longer than a full id
IdFull == Repeat("b", ShaMaxLen)

IdLong == Repeat("a", ShaMaxLen + 1)

RefMain == <<"r", "e", "f", "s", "/", "h", "e", "a", "d", "s", "/", "m">>

RefTag == <<"r", "e", "f", "s", "/", "t", "a", "g", "s", "/", "v">>

PathHEAD == <<"H", "E", "A", "D">>

PathPacked == <<"p", "a", "c", "k", "e", "d", "-", "r", "e", "f", "s">>

PathOrigHead == <<"O", "R", "I", "G", "_", "H", "E", "A", "D">>

PathLogHEAD == <<"l", "o", "g", "s", "/", "H", "E", "A", "D">>

PathLogMain == <<"l", "o", "g", "s", "/", "r", "e", "f", "s", "/", "h", "e", "a", "d", "s", "/", "m">>

\* the lines lo..hi, each ended by eol
RECURSIVE JoinFrom(_, _, _, _)
JoinFrom(lines, eol, lo, hi) ==
    IF lo > hi THEN <<>>
    ELSE IF lo = hi THEN lines[lo] \o eol
    ELSE JoinFrom(lines, eol, lo, (lo + hi) \div 2)
         \o JoinFrom(lines, eol, (lo + hi) \div 2 + 1, hi)

\* the text of a file written from the lines of src, each ended by eol
JoinLines(lines, eol) == JoinFrom(lines, eol, 1, Len(lines))

\* HEAD: "ref: <refpath>\n" or a bare object id (part_000:492, 498)
RenderHead(d) == d.lead \o d.kw \o d.gap \o d.body \o d.rest \o d.trail

\* a packed-refs line: "# comment", "<sha> <ref>", "^<peeledSha>" (part_000:549-554)
RenderPackedLine(l) == l.lead \o l.mark \o l.id \o l.sep \o l.name \o l.rest

RenderPacked(d) ==
    JoinLines([i \in 1..Len(d.lines) |-> RenderPackedLine(d.lines[i])], d.eol)

\* a loose ref or a special ref: a plain text SHA file (part_000:523)
RenderLoose(d) == d.lead \o d.id \o d.rest

\* a reflog line: "oldsha newsha Name <email> timestamp tz \t message"
\* (part_000:676-683)
RenderLogLine(l) ==
    l.old \o <<" ">> \o l.new \o <<" ">> \o l.name \o <<" ", "<">> \o l.email
    \o <<">", " ">> \o natToString(l.secs) \o <<" ">> \o l.tz \o <<"\t">> \o l.msg

RenderLog(d) ==
    JoinLines([i \in 1..Len(d.lines) |-> RenderLogLine(d.lines[i])], <<"\n">>)

\* a config line: [remote "origin"], another section header, key = value, or
\* anything else (part_000:592-597)
RenderConfigLine(l) ==
    CASE l.kind = "remote"  -> l.lead \o <<"[">> \o l.kw \o l.gap \o <<"\"">> \o l.name
                               \o <<"\"", "]">>
      [] l.kind = "section" -> l.lead \o <<"[">> \o l.name \o <<"]">>
      [] l.kind = "kv"      -> l.lead \o l.key \o l.sep \o l.value
      [] OTHER              -> l.lead \o l.value

RenderConfig(d) ==
    JoinLines([i \in 1..Len(d.lines) |-> RenderConfigLine(d.lines[i])], <<"\n">>)

\* the text a file is written with
Render(d) ==
    CASE d.kind = "head"   -> RenderHead(d)
      [] d.kind = "packed" -> RenderPacked(d)
      [] d.kind = "loose"  -> RenderLoose(d)
      [] d.kind = "log"    -> RenderLog(d)
      [] d.kind = "config" -> RenderConfig(d)
      [] OTHER             -> d.text

\* the File written from d: File.size is the length of its content
MkFile(d) == [text |-> Render(d), size |-> Len(Render(d)), src |-> d]

\* the byte index whose map holds, in order, the files written from ds at their
\* paths; the loader declares the total of the sizes
RECURSIVE SumSizes(_)
SumSizes(entries) ==
    IF entries = <<>> THEN 0 ELSE Head(entries).v.size + SumSizes(Tail(entries))

MkIndex(ds) ==
    LET entries == [i \in 1..Len(ds) |-> [k |-> ds[i].path, v |-> MkFile(ds[i])]]
    IN  [byPath |-> entries, totalBytes |-> SumSizes(entries)]

NoOptions == [includeRawConfig |-> Absent, maxReflogEntriesPerRef |-> Absent]

MkInput(ds, options) ==
    [index |-> MkIndex(ds), identity |-> "repo", options |-> options]

\* the sequences of at most n elements of S
RECURSIVE SeqsUpTo(_, _)
SeqsUpTo(S, n) ==
    IF n = 0 THEN {<<>>}
    ELSE LET shorter == SeqsUpTo(S, n - 1)
         IN  shorter \cup {Append(q, x) : q \in {r \in shorter : Len(r) = n - 1}, x \in S}

---------------------------------------------------------------------------
\* HEAD files

HeadRef(lead, kw, gap, target, trail) ==
    [kind |-> "head", path |-> PathHEAD, shape |-> "ref", lead |-> lead, kw |-> kw,
     gap |-> gap, body |-> target, rest |-> <<>>, trail |-> trail]

HeadTokens(lead, first, rest, trail) ==
    [kind |-> "head", path |-> PathHEAD, shape |-> "tokens", lead |-> lead, kw |-> <<>>,
     gap |-> <<>>, body |-> first, rest |-> rest, trail |-> trail]

\* the white space around the content: none, or a space before and a newline after
HeadFrames == {<< <<>>, <<>> >>, << <<" ">>, <<"\n">> >>}

HeadSrcs ==
    {HeadRef(f[1], kw, gap, target, f[2]) :
        f \in HeadFrames,
        kw \in {<<"r", "e", "f", ":">>, <<"R", "E", "F", ":">>},
        gap \in {<<>>, <<" ">>, <<"\t", " ">>},
        target \in {RefMain, IdA, <<"a", " ", "b">>, <<"a", "\n", "b">>}}
    \cup
    {HeadTokens(f[1], first, rest, f[2]) :
        f \in HeadFrames,
        first \in {IdA, IdUpper, IdFull, IdShort, IdLong, IdNonHex},
        rest \in {<<>>, <<" ", "x">>}}
    \cup
    {HeadTokens(f[1], <<>>, <<>>, f[2]) : f \in HeadFrames}

HeadInputs ==
    {MkInput(<<>>, NoOptions)} \cup {MkInput(<<d>>, NoOptions) : d \in HeadSrcs}

---------------------------------------------------------------------------
\* packed-refs, loose refs and special refs

PackedEntry(lead, id, name, rest) ==
    [kind |-> "entry", lead |-> lead, mark |-> <<>>, id |-> id, sep |-> <<" ">>,
     name |-> name, rest |-> rest]

\* two entries of one name, entries with a short and with a long id, an entry
\* written indented, in upper case and with a third token, a comment, a peeled
\* line and a line of one token
PackedLineSrcs ==
    {PackedEntry(<<>>, IdA, RefMain, <<>>),
     PackedEntry(<<>>, IdB, RefMain, <<>>),
     PackedEntry(<<>>, IdShort, RefMain, <<>>),
     PackedEntry(<<>>, IdLong, RefTag, <<>>),
     PackedEntry(<<" ">>, IdUpper, RefTag, <<" ", "x">>),
     [kind |-> "comment", lead |-> <<>>, mark |-> <<"#">>, id |-> IdA, sep |-> <<" ">>,
      name |-> RefMain, rest |-> <<>>],
     [kind |-> "peeled", lead |-> <<>>, mark |-> <<"^">>, id |-> IdB, sep |-> <<>>,
      name |-> <<>>, rest |-> <<>>],
     [kind |-> "onetoken", lead |-> <<>>, mark |-> <<>>, id |-> IdA, sep |-> <<>>,
      name |-> <<>>, rest |-> <<>>]}

MaxPackedLines == 2

PackedSrcs ==
    {[kind |-> "packed", path |-> PathPacked, lines |-> ls, eol |-> <<"\n">>] :
        ls \in SeqsUpTo(PackedLineSrcs, MaxPackedLines)}
    \cup
    {[kind |-> "packed", path |-> PathPacked, lines |-> ls, eol |-> <<"\r", "\n">>] :
        ls \in {<<PackedEntry(<<>>, IdA, RefMain, <<>>), PackedEntry(<<>>, IdB, RefTag, <<>>)>>}}

Loose(path, lead, id, rest) ==
    [kind |-> "loose", path |-> path, lead |-> lead, id |-> id, rest |-> rest]

LooseSrcs ==
    {Loose(RefMain, <<>>, IdB, <<"\n">>),
     Loose(RefMain, <<" ">>, IdUpper, <<" ", "x", "\n">>),
     Loose(RefMain, <<>>, IdNonHex, <<"\n">>),
     Loose(RefMain, <<>>, <<>>, <<>>)}

SpecialSrcs == {Loose(PathOrigHead, <<>>, IdA, <<"\n">>), Loose(PathOrigHead, <<>>, IdShort, <<>>)}

RefsInputs ==
    {MkInput(p \o l \o sp, NoOptions) :
        p  \in {<<>>} \cup {<<d>> : d \in PackedSrcs},
        l  \in {<<>>} \cup {<<d>> : d \in LooseSrcs},
        sp \in {<<>>} \cup {<<d>> : d \in SpecialSrcs}}

---------------------------------------------------------------------------
\* reflogs

TzUtc == <<"+", "0", "0", "0", "0">>

MsgCommit == <<"c", "o", "m", "m", "i", "t", ":", " ", "x">>

MsgCheckout == <<"c", "h", "e", "c", "k", "o", "u", "t", ":", " ", "y">>

LogLine(old, new, name, secs, msg) ==
    [old |-> old, new |-> new, name |-> name, email |-> <<"e", "@", "x">>, secs |-> secs,
     tz |-> TzUtc, msg |-> msg]

Log(path, lines) == [kind |-> "log", path |-> path, lines |-> lines]

\* two events a day apart; the first once more as another ref records it (other
\* old id, other author name); a second event at the time of the first; and
\* lines with a short id, with a long one, and with the time stamp 0
LogLineSrcs ==
    {LogLine(IdA, IdB, <<"N">>, 1, MsgCommit),
     LogLine(IdB, IdA, <<"N">>, 86401, MsgCheckout),
     LogLine(IdUpper, IdB, <<"M", " ", "N">>, 1, MsgCommit),
     LogLine(IdB, IdFull, <<"N">>, 1, MsgCheckout),
     LogLine(IdA, IdShort, <<"N">>, 2, MsgCommit),
     LogLine(IdLong, IdB, <<"N">>, 2, MsgCommit),
     LogLine(IdA, IdB, <<"N">>, 0, MsgCommit)}

MaxLogLines == 3

\* logs/HEAD
HeadLogSrcs == {Log(PathLogHEAD, ls) : ls \in SeqsUpTo(LogLineSrcs, MaxLogLines)}

\* logs/refs/heads/m
MainLogSrcs ==
    {Log(PathLogMain, <<LogLine(IdA, IdB, <<"N">>, 1, MsgCommit)>>),
     Log(PathLogMain, <<LogLine(IdB, IdFull, <<"N">>, 1, MsgCheckout),
                        LogLine(IdB, IdA, <<"N">>, 86401, MsgCheckout)>>)}

LogsInputs ==
    {MkInput(h \o m, NoOptions) :
        h \in {<<>>} \cup {<<d>> : d \in HeadLogSrcs},
        m \in {<<>>} \cup {<<d>> : d \in MainLogSrcs}}

\* one event as logs/HEAD and as logs/refs/heads/m record it, with their own
\* old ids, and a second event
OrderHeadLines ==
    {LogLine(IdUpper, IdB, <<"N">>, 1, MsgCommit),
     LogLine(IdB, IdA, <<"N">>, 2, MsgCheckout),
     LogLine(IdFull, IdB, <<"N">>, 1, MsgCommit)}

OrderMainLines ==
    {LogLine(IdA, IdB, <<"N">>, 1, MsgCommit),
     LogLine(IdA, IdA, <<"N">>, 2, MsgCheckout),
     LogLine(IdB, IdA, <<"N">>, 3, MsgCommit)}

MaxOrderLines == 2

\* both logs, logs/HEAD before and behind logs/refs/heads/m in the index
OrderInputs ==
    {MkInput(<<Log(PathLogHEAD, h), Log(PathLogMain, m)>>, NoOptions) :
        h \in SeqsUpTo(OrderHeadLines, MaxOrderLines),
        m \in SeqsUpTo(OrderMainLines, MaxOrderLines)}
    \cup
    {MkInput(<<Log(PathLogMain, m), Log(PathLogHEAD, h)>>, NoOptions) :
        h \in SeqsUpTo(OrderHeadLines, MaxOrderLines),
        m \in SeqsUpTo(OrderMainLines, MaxOrderLines)}

\* the messages git writes for a new branch and for filter-branch, and a commit
MsgBranch ==
    <<"b", "r", "a", "n", "c", "h", ":", " ", "C", "r", "e", "a", "t", "e", "d", " ",
      "f", "r", "o", "m", " ", "H", "E", "A", "D">>

MsgFilterBranch ==
    <<"f", "i", "l", "t", "e", "r", "-", "b", "r", "a", "n", "c", "h", ":", " ",
      "r", "e", "w", "r", "i", "t", "e">>

FilterLineSrcs ==
    {LogLine(IdA, IdB, <<"N">>, 1, MsgBranch),
     LogLine(IdB, IdA, <<"N">>, 2, MsgFilterBranch),
     LogLine(IdA, IdB, <<"N">>, 86401, MsgCommit)}

MaxFilterLines == 2

FilterInputs ==
    {MkInput(<<Log(PathLogHEAD, ls)>>, NoOptions) :
        ls \in SeqsUpTo(FilterLineSrcs, MaxFilterLines)}

---------------------------------------------------------------------------
\* events per day

MaxEvents == 7

\* a log of events on days: line j is written on day (j - 1) % days, j seconds
\* after its midnight UTC when j is odd and j seconds before the next when even
DaysLog(events, days) ==
    [kind |-> "log", path |-> PathLogHEAD, events |-> events, days |-> days,
     lines |-> [j \in 1..events |->
                   LogLine(IdA, IdB, <<"N">>,
                           ((j - 1) % days) * (MsPerDay \div MsPerSecond)
                               + (IF j % 2 = 1 THEN j ELSE (MsPerDay \div MsPerSecond) - j),
                           MsgCommit)]]

DaysInputs ==
    {MkInput(<<>>, NoOptions)}
    \cup
    {MkInput(<<DaysLog(ed[1], ed[2])>>, NoOptions) :
        ed \in {p \in (1..MaxEvents) \X (1..MaxEvents) : p[2] <= p[1]}}

---------------------------------------------------------------------------
\* the cap on the entries of a reflog

\* the most lines of a log written for the cap
CapLines == 102

\* a log of n lines, line j written at second j, with a short id in the lines bad
CapLog(path, n, bad) ==
    [kind |-> "log", path |-> path,
     lines |-> [j \in 1..n |->
                   LogLine(IdA, IF j \in bad THEN IdShort ELSE IdB, <<"N">>, j, MsgCommit)]]

CapHeadSrcs ==
    {CapLog(PathLogHEAD, n, bad) :
        n \in (MinReflogEntries - 1)..CapLines,
        bad \in {{}, {1}, {MinReflogEntries}}}

CapMainSrcs == {CapLog(PathLogMain, MinReflogEntries + 1, {})}

Option(n) == [includeRawConfig |-> Absent, maxReflogEntriesPerRef |-> Present(n)]

CapOptions ==
    {NoOptions}
    \cup {Option(n) : n \in {-1, 0, 1, MinReflogEntries - 1, MinReflogEntries,
                            MinReflogEntries + 1, MaxReflogEntries, MaxReflogEntries + 1}}

\* every log under a cap below and a cap above the least one, and the longest
\* log and no log under every option
CapInputs ==
    {MkInput(<<h>> \o m, o) :
        h \in CapHeadSrcs,
        m \in {<<>>} \cup {<<d>> : d \in CapMainSrcs},
        o \in {Option(1), Option(MinReflogEntries + 1)}}
    \cup
    {MkInput(<<CapLog(PathLogHEAD, CapLines, {})>>, o) : o \in CapOptions}
    \cup
    {MkInput(<<>>, o) : o \in CapOptions}

---------------------------------------------------------------------------
\* reflog messages

\* a message written as white space, a first word, white space, a colon or
\* nothing, and the rest
Msg(lead, word, gap, colon, rest) ==
    [lead |-> lead, word |-> word, gap |-> gap, colon |-> colon, rest |-> rest]

RenderMsg(m) == m.lead \o m.word \o m.gap \o m.colon \o m.rest

\* the messages of the examples of classifyReflogMessage, the action words in
\* lower and upper case and as the start of a longer word, tokens before a
\* colon, words that are no token, and a token that names a property of
\* Object.prototype
MsgSrcs ==
    {Msg(<<>>, <<"c", "h", "e", "c", "k", "o", "u", "t">>, <<>>, <<":">>, <<" ", "m", "o", "v", "i", "n", "g", " ", "f", "r", "o", "m", " ", "a", " ", "t", "o", " ", "b">>),
     Msg(<<>>, <<"c", "u", "s", "t", "o", "m", "-", "t", "o", "o", "l">>, <<>>, <<":">>, <<" ", "d", "i", "d", " ", "s", "o", "m", "e", "t", "h", "i", "n", "g">>),
     Msg(<<>>, <<>>, <<>>, <<>>, <<>>),
     Msg(<<>>, <<"r", "a", "n", "d", "o", "m">>, <<" ">>, <<>>, <<"t", "e", "x", "t">>),
     Msg(<<>>, <<"C", "o", "m", "m", "i", "t">>, <<" ">>, <<>>, <<"(", "i", "n", "i", "t", "i", "a", "l", ")">>),
     Msg(<<>>, <<"c", "o", "m", "m", "i", "t", "m", "e", "n", "t">>, <<>>, <<":">>, <<" ", "x">>),
     Msg(<<>>, <<"M", "E", "R", "G", "E">>, <<" ">>, <<>>, <<"b">>),
     Msg(<<>>, <<"r", "e", "b", "a", "s", "e">>, <<" ">>, <<>>, <<"(", "s", "t", "a", "r", "t", ")">>),
     Msg(<<>>, <<"r", "e", "s", "e", "t">>, <<>>, <<":">>, <<" ", "m", "o", "v", "i", "n", "g">>),
     Msg(<<>>, <<"p", "u", "l", "l", "-", "r", "e", "q", "u", "e", "s", "t">>, <<>>, <<":">>, <<" ", "1">>),
     Msg(<<>>, <<"f", "e", "t", "c", "h">>, <<>>, <<>>, <<>>),
     Msg(<<>>, <<"a", "m", "e", "n", "d">>, <<>>, <<>>, <<>>),
     Msg(<<>>, <<"c", "h", "e", "r", "r", "y", "-", "p", "i", "c", "k">>, <<>>, <<":">>, <<" ", "c">>),
     Msg(<<>>, <<"c", "h", "e", "r", "r", "y", "p", "i", "c", "k">>, <<>>, <<>>, <<>>),
     Msg(<<>>, <<"T", "o", "o", "l", "2">>, <<" ", "\t">>, <<":">>, <<"x">>),
     Msg(<<>>, <<"m", "y">>, <<" ">>, <<>>, <<"t", "o", "o", "l", ":", " ", "x">>),
     Msg(<<>>, <<"t", "o", "o", "l", "_", "x">>, <<>>, <<":">>, <<" ", "y">>),
     Msg(<<>>, <<>>, <<>>, <<":">>, <<" ", "z">>),
     Msg(<<>>, <<"c", "o", "n", "s", "t", "r", "u", "c", "t", "o", "r">>, <<>>, <<":">>, <<" ", "x">>),
     Msg(<<" ">>, <<"c", "l", "o", "n", "e">>, <<>>, <<":">>, <<" ", "f", "r", "o", "m", " ", "u", " ">>)}

\* line j of a log, written at second j with the message m
MsgLine(j, m) ==
    [old |-> IdA, new |-> IdB, name |-> <<"N">>, email |-> <<"e", "@", "x">>, secs |-> j,
     tz |-> TzUtc, msg |-> RenderMsg(m), parts |-> m]

MaxMsgLines == 2

MsgLogSrcs ==
    {Log(PathLogHEAD, [j \in 1..Len(ms) |-> MsgLine(j, ms[j])]) :
        ms \in SeqsUpTo(MsgSrcs, MaxMsgLines)}

MsgInputs == {MkInput(<<d>>, NoOptions) : d \in MsgLogSrcs}

---------------------------------------------------------------------------
\* config

PathConfig == <<"c", "o", "n", "f", "i", "g">>

ConfigLine(kind, lead, kw, gap, name, key, sep, value) ==
    [kind |-> kind, lead |-> lead, kw |-> kw, gap |-> gap, name |-> name, key |-> key,
     sep |-> sep, value |-> value]

RemoteHeader(kw, gap, name) == ConfigLine("remote", <<>>, kw, gap, name, <<>>, <<>>, <<>>)

SectionHeader(name) == ConfigLine("section", <<>>, <<>>, <<>>, name, <<>>, <<>>, <<>>)

KeyValue(lead, key, sep, value) == ConfigLine("kv", lead, <<>>, <<>>, <<>>, key, sep, value)

OtherLine(text) == ConfigLine("other", <<>>, <<>>, <<>>, <<>>, <<>>, <<>>, text)

\* the headers of the remotes origin and up and of a section that is no
\* remote, the three keys, one of them in upper case and without spaces, and
\* a line that is neither a header nor key = value
ConfigLineSrcs ==
    {RemoteHeader(<<"r", "e", "m", "o", "t", "e">>, <<" ">>, <<"o", "r", "i", "g", "i", "n">>),
     RemoteHeader(<<"R", "e", "m", "o", "t", "e">>, <<" ", " ">>, <<"u", "p">>),
     SectionHeader(<<"c", "o", "r", "e">>),
     KeyValue(<<"\t">>, <<"u", "r", "l">>, <<" ", "=", " ">>, <<"a", ".", "g", "i", "t">>),
     KeyValue(<<>>, <<"F", "E", "T", "C", "H">>, <<"=">>, <<"b">>),
     KeyValue(<<>>, <<"p", "u", "s", "h", "u", "r", "l">>, <<" ", "=">>, <<"p">>),
     OtherLine(<<"u", "r", "l", " ", "c">>)}

MaxConfigLines == 4

ConfigSrcs ==
    {[kind |-> "config", path |-> PathConfig, lines |-> ls] :
        ls \in SeqsUpTo(ConfigLineSrcs, MaxConfigLines)}

ConfigInputs == {MkInput(<<>>, NoOptions)} \cup {MkInput(<<d>>, NoOptions) : d \in ConfigSrcs}

---------------------------------------------------------------------------
\* a repository with a HEAD, refs, a config and a log

RefHeadsMain == <<"r", "e", "f", "s", "/", "h", "e", "a", "d", "s", "/", "m", "a", "i", "n">>

\* HEAD = "ref: refs/heads/main"
MainHead == HeadRef(<<>>, <<"r", "e", "f", ":">>, <<" ">>, RefHeadsMain, <<>>)

\* refs/heads/main = "abc1234\n"
MainLoose == Loose(RefHeadsMain, <<>>, IdA, <<"\n">>)

\* a well-formed line with the time stamp 1700000000
MainLogLine == LogLine(IdB, IdA, <<"N">>, 1700000000, MsgCommit)

\* the index of HEAD, refs/heads/main and logs/HEAD
MainRepo == <<MainHead, MainLoose, Log(PathLogHEAD, <<MainLogLine>>)>>

MaxMixedLines == 2

\* packed-refs of entries of refs/heads/main and of a tag, of entries with a
\* short id and of lines of one token
MixedPackedSrcs ==
    {[kind |-> "packed", path |-> PathPacked, lines |-> ls, eol |-> <<"\n">>] :
        ls \in SeqsUpTo({PackedEntry(<<>>, IdB, RefHeadsMain, <<>>),
                         PackedEntry(<<>>, IdB, RefTag, <<>>),
                         PackedEntry(<<>>, IdShort, RefTag, <<>>),
                         [kind |-> "onetoken", lead |-> <<>>, mark |-> <<>>, id |-> IdA,
                          sep |-> <<>>, name |-> <<>>, rest |-> <<>>]},
                        MaxMixedLines)}

MixedLooseSrcs ==
    {MainLoose, Loose(RefHeadsMain, <<>>, IdNonHex, <<"\n">>), Loose(RefHeadsMain, <<>>, <<>>, <<>>)}

MixedConfigSrcs ==
    {[kind |-> "config", path |-> PathConfig, lines |-> ls] :
        ls \in SeqsUpTo({RemoteHeader(<<"r", "e", "m", "o", "t", "e">>, <<" ">>, <<"o", "r", "i", "g", "i", "n">>),
                         KeyValue(<<>>, <<"u", "r", "l">>, <<" ", "=", " ">>, <<"a", ".", "g", "i", "t">>),
                         OtherLine(<<"[", "r", "e", "m", "o", "t", "e", " ", "\"", "u", "p", "\"">>),
                         OtherLine(<<"u", "r", "l">>)},
                        MaxMixedLines)}

MixedLogSrcs ==
    {Log(PathLogHEAD, ls) :
        ls \in SeqsUpTo({MainLogLine,
                         LogLine(IdA, IdB, <<"N">>, 1700000001, MsgCheckout),
                         LogLine(IdA, IdShort, <<"N">>, 1700000002, MsgCommit),
                         LogLine(IdA, IdB, <<"N">>, 0, MsgCommit)},
                        MaxMixedLines)}

\* no file at all, the repository as it is, and with one of its files written in every way,
\* next to a packed-refs and a config that are well formed
MixedInputs ==
    {MkInput(<<>>, NoOptions), MkInput(MainRepo, NoOptions)}
    \cup {MkInput(<<MainHead, d, MainLoose>>, NoOptions) : d \in MixedPackedSrcs}
    \cup {MkInput(<<MainHead, [kind |-> "packed", path |-> PathPacked,
                               lines |-> <<PackedEntry(<<>>, IdB, RefHeadsMain, <<>>)>>,
                               eol |-> <<"\n">>], d>>, NoOptions) : d \in MixedLooseSrcs}
    \cup {MkInput(<<MainHead, MainLoose, d>>, NoOptions) : d \in MixedConfigSrcs}
    \cup {MkInput(<<MainHead, MainLoose, d>>, NoOptions) : d \in MixedLogSrcs}

---------------------------------------------------------------------------
\* raw paths

Raw(path, text) == [kind |-> "raw", path |-> path, text |-> text]

\* HEAD under three spellings, a path that normalizes to the empty string, a
\* loose ref written with backslashes, and HEAD behind two "./"
RawSrcs ==
    {Raw(<<"H", "E", "A", "D">>, IdA \o <<"\n">>),
     Raw(<<".", "/", "H", "E", "A", "D">>, IdB \o <<" ", "x", "\n">>),
     Raw(<<".", "g", "i", "t", "/", "H", "E", "A", "D">>, <<"r", "e", "f", ":", " ">> \o RefMain),
     Raw(<<"/">>, <<"x">>),
     Raw(<<"r", "e", "f", "s", "\\", "h", "e", "a", "d", "s", "\\", "m">>, IdUpper),
     Raw(<<".", "/", ".", "/", "H", "E", "A", "D">>, IdA)}

MaxRawPaths == 2

\* a Map holds a key once
RawPathSeqs ==
    {ds \in SeqsUpTo(RawSrcs, MaxRawPaths) :
        \A i, j \in 1..Len(ds) : i # j => ds[i].path # ds[j].path}

PathsInputs == {MkInput(ds, NoOptions) : ds \in RawPathSeqs}

---------------------------------------------------------------------------

\* one call of analyzeGitIndex over an input of any kind, and the controller as
\* constructed
Init ==
    /\ \/ input \in HeadInputs
       \/ input \in RefsInputs
       \/ input \in LogsInputs
       \/ input \in DaysInputs
       \/ input \in CapInputs
       \/ input \in PathsInputs
       \/ input \in MsgInputs
       \/ input \in ConfigInputs
       \/ input \in MixedInputs
    /\ run = NewRun
    /\ otherInput = input
    /\ otherRun = NoRun
    /\ live = NewLive
    /\ ui = NewUi

Spec == Init /\ [][Next]_vars

\* the runs over the inputs of one kind
SpecHead == (input \in HeadInputs /\ run = NewRun /\ otherInput = input /\ otherRun = NoRun /\ live = NewLive /\ ui = NewUi) /\ [][Next]_vars

SpecRefs == (input \in RefsInputs /\ run = NewRun /\ otherInput = input /\ otherRun = NoRun /\ live = NewLive /\ ui = NewUi) /\ [][Next]_vars

SpecLogs == (input \in LogsInputs /\ run = NewRun /\ otherInput = input /\ otherRun = NoRun /\ live = NewLive /\ ui = NewUi) /\ [][Next]_vars

SpecDays == (input \in DaysInputs /\ run = NewRun /\ otherInput = input /\ otherRun = NoRun /\ live = NewLive /\ ui = NewUi) /\ [][Next]_vars

SpecCap == (input \in CapInputs /\ run = NewRun /\ otherInput = input /\ otherRun = NoRun /\ live = NewLive /\ ui = NewUi) /\ [][Next]_vars

SpecPaths == (input \in PathsInputs /\ run = NewRun /\ otherInput = input /\ otherRun = NoRun /\ live = NewLive /\ ui = NewUi) /\ [][Next]_vars

SpecMsgs == (input \in MsgInputs /\ run = NewRun /\ otherInput = input /\ otherRun = NoRun /\ live = NewLive /\ ui = NewUi) /\ [][Next]_vars

SpecConfig == (input \in ConfigInputs /\ run = NewRun /\ otherInput = input /\ otherRun = NoRun /\ live = NewLive /\ ui = NewUi) /\ [][Next]_vars

SpecMixed == (input \in MixedInputs /\ run = NewRun /\ otherInput = input /\ otherRun = NoRun /\ live = NewLive /\ ui = NewUi) /\ [][Next]_vars

\* two calls: no file, the repository of HEAD, refs/heads/main and logs/HEAD,
\* the same under another identity, a detached HEAD alone, and the repository
\* without its log
TwoInputs ==
    {MkInput(<<>>, NoOptions),
     MkInput(MainRepo, NoOptions),
     [MkInput(MainRepo, NoOptions) EXCEPT !.identity = "other"],
     MkInput(<<HeadTokens(<<>>, IdB, <<>>, <<"\n">>)>>, NoOptions),
     MkInput(<<MainHead, MainLoose>>, NoOptions)}

SpecOrder == (input \in OrderInputs /\ run = NewRun /\ otherInput = input /\ otherRun = NoRun /\ live = NewLive /\ ui = NewUi) /\ [][Next]_vars

SpecFilter == (input \in FilterInputs /\ run = NewRun /\ otherInput = input /\ otherRun = NoRun /\ live = NewLive /\ ui = NewUi) /\ [][Next]_vars

SpecTwo ==
    /\ input \in TwoInputs /\ run = NewRun
    /\ otherInput \in TwoInputs /\ otherRun = NewRun
    /\ live = NewLive
    /\ ui = NewUi
    /\ [][NextTwo]_vars

\* the controller next to a store, with no call of analyzeGitIndex
SpecLive ==
    /\ input = MkInput(<<>>, NoOptions) /\ run = NoRun
    /\ otherInput = input /\ otherRun = NoRun
    /\ live = NewLive
    /\ ui = NewUi
    /\ [][NextLive]_vars

\* the controller with timers that fire: a pending timer is not left pending
\* for ever
SpecLiveFair ==
    /\ input = MkInput(<<>>, NoOptions) /\ run = NoRun
    /\ otherInput = input /\ otherRun = NoRun
    /\ live = NewLive
    /\ ui = NewUi
    /\ [][NextLive]_vars
    /\ WF_vars(TimerFires)

\* an event of the timeline with the message
PageEvent(msg) ==
    [ref |-> <<"H", "E", "A", "D">>, oldSha |-> IdA, newSha |-> IdB, authorName |-> <<"N">>,
     authorEmail |-> <<"e">>, ts |-> 1, tz |-> <<>>, msg |-> msg]

\* the events of the snapshots the timeline pages
MaxPageEvents == 11

PageSnapshots ==
    {NullRepo}
    \cup {[null |-> FALSE, source |-> "dir-handle",
           commits |-> [i \in 1..n |-> PageEvent(IF i % 2 = 1 THEN MsgFilterBranch
                                                            ELSE MsgBranch)]] :
             n \in {3, MaxPageEvents}}

PageActs == {<<>>, <<"b", "r", "a", "n", "c", "h">>, MsgFilterBranch, <<"f", "i", "l", "t", "e", "r">>}

PagingActions(state) ==
    {[type |-> "ui/setTimelinePage", page |-> p] : p \in {-3, 0, 1, 2, 7}}
    \cup {[type |-> "ui/setTimelinePerPage", perPage |-> n] : n \in {MinPerPage, DefaultPerPage}}
    \cup {[type |-> "ui/setQuery", patch |-> actionQuery(state.query, act)] : act \in PageActs}
    \cup {[type |-> "repo/setSnapshot", snapshot |-> r] : r \in PageSnapshots}

\* mount of the timeline view (timelineView.ts mount)
MountsTimeline ==
    /\ ~Subscribed(ui, "timeline")
    /\ ui' = subscribe(atHandler(ui, NoAction, "mount"), "timeline")
    /\ UNCHANGED <<input, run, otherInput, otherRun, live>>

\* a control of the timeline, a dashboard row or a loader dispatches
PagingDispatches ==
    /\ \E a \in PagingActions(ui.state) :
           ui' = storeDispatch(atHandler(ui, a, "page"), a, MaxRenders)
    /\ UNCHANGED <<input, run, otherInput, otherRun, live>>

NextPaging == MountsTimeline \/ PagingDispatches

\* the store next to the timeline view
SpecPaging ==
    /\ input = MkInput(<<>>, NoOptions) /\ run = NoRun
    /\ otherInput = input /\ otherRun = NoRun
    /\ live = NewLive
    /\ ui = NewUi
    /\ [][NextPaging]_vars

(***************************************************************************)
(* The loaders (app/loaders.ts) and the buttons that call them             *)
(***************************************************************************)

\* the snapshots analyzeGitIndex makes of the directory as it changes, and the
\* indexes built of it
MaxDirStates == 2

DirSnapshots ==
    {[null |-> FALSE, source |-> "dir-handle",
      commits |-> [i \in 1..n |-> PageEvent(MsgBranch)]] : n \in 1..MaxDirStates}

DirIndexes == 1..MaxDirStates

\* the dispatches of a handler in their order
RECURSIVE dispatchAll(_, _)
dispatchAll(u, as) ==
    IF as = <<>> THEN u
    ELSE dispatchAll(storeDispatch(u, Head(as), MaxRenders), Tail(as))

setStatus(status) == [type |-> "ui/setStatus", status |-> status]

setMessage(kind) == [type |-> "ui/setMessage", message |-> [kind |-> kind]]

setRepoSnapshot(snapshot) == [type |-> "repo/setSnapshot", snapshot |-> snapshot]

setFilesIndex(index) == [type |-> "files/setIndex", index |-> index]

\* failLoading (loaders.ts)
failLoading(u) == dispatchAll(u, <<setStatus("error"), setMessage("error")>>)

\* the handler of the pick button from the return of the picker to the first
\* await of loadFromDirectoryHandle (part_000:86-96, loaders.ts beginLoading)
PickDir ==
    /\ ui.load.pc = "none"
    /\ ui' = dispatchAll([atHandler(ui, NoAction, "load") EXCEPT
                             !.handle = TRUE,
                             !.unloaded = FALSE,
                             !.load = [NoCall EXCEPT !.pc = "index"]],
                         <<setStatus("loading"), setMessage("muted")>>)
    /\ UNCHANGED <<input, run, otherInput, otherRun, live>>

\* loadFromDirectoryHandle from buildIndexFromDirectoryHandle to the await of
\* analyzeGitIndex
LoadIndexed ==
    /\ ui.load.pc = "index"
    /\ \E index \in DirIndexes \cup {0}, ok \in BOOLEAN :
           ui' = IF ~ok \/ index = 0
                 THEN failLoading([atHandler(ui, NoAction, "load") EXCEPT
                                     !.load.pc = "none", !.load.result = "failed"])
                 ELSE dispatchAll([atHandler(ui, NoAction, "load") EXCEPT !.load.pc = "analyze"],
                                  <<setFilesIndex(index), setMessage("muted")>>)
    /\ UNCHANGED <<input, run, otherInput, otherRun, live>>

\* loadFromDirectoryHandle from analyzeGitIndex to its return
LoadAnalyzed ==
    /\ ui.load.pc = "analyze"
    /\ \E snapshot \in DirSnapshots, ok \in BOOLEAN :
           ui' = IF ~ok
                 THEN failLoading([atHandler(ui, NoAction, "load") EXCEPT
                                     !.load.pc = "none", !.load.result = "failed"])
                 ELSE dispatchAll([atHandler(ui, NoAction, "load") EXCEPT
                                     !.load.pc = "none",
                                     !.load.result = "ok",
                                     !.refresh.interfered = TRUE],
                                  <<setRepoSnapshot(snapshot), setStatus("ready"),
                                    setMessage("ok"),
                                    [type |-> "ui/setView", view |-> "dashboard"]>>)
    /\ UNCHANGED <<input, run, otherInput, otherRun, live>>

\* the live toggle (part_000:117-121)
ToggleLive ==
    /\ \E b \in BOOLEAN :
           /\ b # ui.state.live.enabled
           /\ ui' = storeDispatch(atHandler(ui, NoAction, "toggle"),
                                  [type |-> "live/setEnabled", enabled |-> b], MaxRenders)
    /\ UNCHANGED <<input, run, otherInput, otherRun, live>>

\* unloadProject (loaders.ts)
unloadProject(u) ==
    dispatchAll(u, <<setRepoSnapshot(NullRepo), setFilesIndex(0), setStatus("idle"),
                     setMessage("muted")>>)

\* the handler of the unload button (part_000:107-115)
Unload ==
    /\ ui' = unloadProject(storeDispatch([atHandler(ui, NoAction, "unload") EXCEPT
                                            !.handle = FALSE,
                                            !.unloaded = TRUE,
                                            !.refresh.interfered = TRUE],
                                         [type |-> "live/setEnabled", enabled |-> FALSE],
                                         MaxRenders))
    /\ UNCHANGED <<input, run, otherInput, otherRun, live>>

\* a tick of the polling loop calls refreshFromDirectoryHandle, silent, which
\* awaits buildIndexFromDirectoryHandle (liveTracking.ts:138-162)
RefreshBegins ==
    /\ ui.refresh.pc = "none"
    /\ ui.handle
    /\ ui.state.live.enabled
    /\ ui.state.repo.source = "dir-handle"
    /\ ui' = [atHandler(ui, NoAction, "tick") EXCEPT
                 !.refresh = [NoCall EXCEPT !.pc = "index", !.atStart = ui.state.repo]]
    /\ UNCHANGED <<input, run, otherInput, otherRun, live>>

\* the catch of refreshFromDirectoryHandle that clears the snapshot as well
refreshFailedClearing(u) ==
    dispatchAll([u EXCEPT !.refresh.pc = "none", !.refresh.result = "failed"],
                <<setRepoSnapshot(NullRepo), setStatus("error"), setMessage("error")>>)

\* the catch of refreshFromDirectoryHandle and its return
refreshFailed(u) ==
    dispatchAll([u EXCEPT !.refresh.pc = "none", !.refresh.result = "failed"],
                <<setStatus("error"), setMessage("error")>>)

\* refreshFromDirectoryHandle from buildIndexFromDirectoryHandle to the await
\* of analyzeGitIndex
RefreshIndexed ==
    /\ ui.refresh.pc = "index"
    /\ \E index \in DirIndexes, ok \in BOOLEAN :
           ui' = IF ~ok THEN refreshFailed(atHandler(ui, NoAction, "refresh"))
                 ELSE storeDispatch([atHandler(ui, NoAction, "refresh") EXCEPT
                                       !.refresh.pc = "analyze"],
                                    setFilesIndex(index), MaxRenders)
    /\ UNCHANGED <<input, run, otherInput, otherRun, live>>

\* refreshFromDirectoryHandle from analyzeGitIndex to its return
RefreshAnalyzed ==
    /\ ui.refresh.pc = "analyze"
    /\ \E snapshot \in DirSnapshots, ok \in BOOLEAN :
           ui' = IF ~ok THEN refreshFailed(atHandler(ui, NoAction, "refresh"))
                 ELSE dispatchAll([atHandler(ui, NoAction, "refresh") EXCEPT
                                     !.refresh.pc = "none", !.refresh.result = "ok"],
                                  <<setRepoSnapshot(snapshot), setStatus("ready"),
                                    [type |-> "live/tick", at |-> 1]>>)
    /\ UNCHANGED <<input, run, otherInput, otherRun, live>>

NextLoader ==
    \/ PickDir
    \/ LoadIndexed
    \/ LoadAnalyzed
    \/ ToggleLive
    \/ Unload
    \/ RefreshBegins
    \/ RefreshIndexed
    \/ RefreshAnalyzed

\* the store next to the loaders and the buttons of the page
SpecLoader ==
    /\ input = MkInput(<<>>, NoOptions) /\ run = NoRun
    /\ otherInput = input /\ otherRun = NoRun
    /\ live = NewLive
    /\ ui = NewUi
    /\ [][NextLoader]_vars

\* the store next to its subscribers, structuredClone being there or not
SpecStore ==
    /\ input = MkInput(<<>>, NoOptions) /\ run = NoRun
    /\ otherInput = input /\ otherRun = NoRun
    /\ live = NewLive
    /\ ui \in {[NewUi EXCEPT !.canClone = c] : c \in BOOLEAN}
    /\ [][NextStore]_vars

(***************************************************************************)
(* Properties                                                              *)
(***************************************************************************)

\* a hex string of 7 to 40 characters
IsHexId(s) ==
    /\ Len(s) >= 7
    /\ Len(s) <= 40
    /\ \A i \in 1..Len(s) :
           s[i] \in {"0", "1", "2", "3", "4", "5", "6", "7", "8", "9",
                     "a", "b", "c", "d", "e", "f", "A", "B", "C", "D", "E", "F"}

\* what the files of the input were written from, in the order of the index
Srcs == [i \in 1..Len(input.index.byPath) |-> input.index.byPath[i].v.src]

\* the run has returned its snapshot
Returned == run.result.kind = "snapshot"

AfterHead == run.pc \in {"packed", "loose", "specials", "config", "reflogs", "build", "done"}

AfterLoose == run.pc \in {"specials", "config", "reflogs", "build", "done"}

AfterReflogs == run.pc \in {"build", "done"}

\* a packed-refs line "<valid id> <ref name>" that starts with neither # nor ^
PackedValid(l) == l.mark = <<>> /\ IsHexId(l.id) /\ l.sep # <<>> /\ l.name # <<>>

\* packed-refs p holds a valid entry for the name of the loose file l, whose
\* first token is a valid id other than the entry's
PackedShadowed(p, l) ==
    /\ p.kind = "packed"
    /\ l.kind = "loose"
    /\ startsWith(l.path, <<"r", "e", "f", "s", "/">>)
    /\ IsHexId(l.id)
    /\ \E n \in 1..Len(p.lines) :
           PackedValid(p.lines[n]) /\ p.lines[n].name = l.path /\ p.lines[n].id # l.id

\* C1: once parseRefs has read the loose refs, a ref name R that packed-refs
\* holds with id A and that a loose file at R gives a valid id B other than A
\* is mapped to B: the loose value wins.
LooseWinsOverPacked ==
    AfterLoose =>
        \A i, j \in 1..Len(Srcs) :
            PackedShadowed(Srcs[i], Srcs[j]) =>
                /\ MapHas(run.refs, Srcs[j].path)
                /\ MapGet(run.refs, Srcs[j].path) = Srcs[j].id

LooseWinsOverPackedWitness ==
    /\ Returned
    /\ \E i, j \in 1..Len(Srcs) :
           /\ PackedShadowed(Srcs[i], Srcs[j])
           /\ MapGet(run.result.value.refs, Srcs[j].path) = Srcs[j].id

\* the entries of the table with the name and the id of the line l
EntriesOf(l) ==
    {e \in 1..Len(run.refs) : run.refs[e].k = l.name /\ run.refs[e].v = l.id}

\* every entry of the table has the name and the id of a valid line of lines
EntriesStemFrom(lines) ==
    \A e \in 1..Len(run.refs) :
        \E n \in 1..Len(lines) :
            PackedValid(lines[n]) /\ lines[n].name = run.refs[e].k /\ lines[n].id = run.refs[e].v

\* the last valid line of lines that has the name of line n
LastOfName(lines, n) ==
    lines[CHOOSE m \in n..Len(lines) :
              /\ PackedValid(lines[m]) /\ lines[m].name = lines[n].name
              /\ \A x \in (m + 1)..Len(lines) :
                     ~(PackedValid(lines[x]) /\ lines[x].name = lines[n].name)]

\* C2 as stated: in the table parseRefs holds after packed-refs, every valid
\* line has exactly one entry with its name and its id, and the other lines
\* have none.
PackedLineYieldsItsEntry ==
    run.pc = "loose" =>
        \A i \in 1..Len(Srcs) :
            Srcs[i].kind = "packed" =>
                /\ \A n \in 1..Len(Srcs[i].lines) :
                       PackedValid(Srcs[i].lines[n]) =>
                           Cardinality(EntriesOf(Srcs[i].lines[n])) = 1
                /\ EntriesStemFrom(Srcs[i].lines)

\* C2: in the table parseRefs holds after packed-refs, every valid line has
\* exactly one entry with its name, whose id is that of the last valid line of
\* that name, and the other lines have none.
PackedLastLineOfNameYieldsEntry ==
    run.pc = "loose" =>
        \A i \in 1..Len(Srcs) :
            Srcs[i].kind = "packed" =>
                /\ \A n \in 1..Len(Srcs[i].lines) :
                       PackedValid(Srcs[i].lines[n]) =>
                           /\ Cardinality({e \in 1..Len(run.refs) :
                                              run.refs[e].k = Srcs[i].lines[n].name}) = 1
                           /\ MapGet(run.refs, Srcs[i].lines[n].name)
                                  = LastOfName(Srcs[i].lines, n).id
                /\ EntriesStemFrom(Srcs[i].lines)

PackedLastLineOfNameWitness ==
    /\ run.pc = "loose"
    /\ \E i \in 1..Len(Srcs) :
           /\ Srcs[i].kind = "packed"
           /\ \E n, m \in 1..Len(Srcs[i].lines) :
                  /\ n < m
                  /\ PackedValid(Srcs[i].lines[n])
                  /\ PackedValid(Srcs[i].lines[m])
                  /\ Srcs[i].lines[n].name = Srcs[i].lines[m].name
                  /\ Srcs[i].lines[n].id # Srcs[i].lines[m].id
                  /\ MapGet(run.refs, Srcs[i].lines[m].name) = Srcs[i].lines[m].id

\* the head a HEAD file written from d stands for
ExpectedHead(d) ==
    IF d.shape = "ref" /\ d.gap # <<>> /\ \A i \in 1..Len(d.body) : d.body[i] \notin {"\n", "\r"}
    THEN [type |-> "ref", value |-> d.body]
    ELSE IF d.shape = "tokens" /\ IsHexId(d.body)
    THEN [type |-> "detached", value |-> d.body]
    ELSE [type |-> "none", value |-> <<>>]

\* C3: parseHead returns Symbolic(target) for "ref:", in either case, white
\* space and a target; else Detached(id) when the first token is a valid id;
\* else, and without a HEAD file, null.
HeadParsed ==
    AfterHead =>
        /\ Len(Srcs) = 0 => run.head = [type |-> "none", value |-> <<>>]
        /\ \A i \in 1..Len(Srcs) : Srcs[i].kind = "head" => run.head = ExpectedHead(Srcs[i])

HeadParsedWitness ==
    /\ Returned
    /\ \E i \in 1..Len(Srcs) :
           /\ Srcs[i].kind = "head"
           /\ Srcs[i].shape = "ref"
           /\ Srcs[i].kw = <<"R", "E", "F", ":">>
           /\ run.result.value.head = [type |-> "ref", value |-> RefMain]

\* every id of a head, a ref table, a reflog map and an event list is a hex id
IdsAreHex(head, refs, reflogs, commits) ==
    /\ head.type = "detached" => IsHexId(head.value)
    /\ \A i \in 1..Len(refs) : IsHexId(refs[i].v)
    /\ \A i \in 1..Len(reflogs) :
           \A j \in 1..Len(reflogs[i].v) :
               IsHexId(reflogs[i].v[j].oldSha) /\ IsHexId(reflogs[i].v[j].newSha)
    /\ \A i \in 1..Len(commits) : IsHexId(commits[i].oldSha) /\ IsHexId(commits[i].newSha)

\* C4: every id a run holds and every id of the snapshot it returns, in a
\* detached head, the ref table, the reflog map and the event list, is a hex
\* string of 7 to 40 characters.
StoredIdsAreHex ==
    /\ IdsAreHex(run.head, run.refs, run.reflogs, <<>>)
    /\ Returned =>
           IdsAreHex(run.result.value.head, run.result.value.refs,
                     run.result.value.reflogs, run.result.value.commits)

\* a snapshot with entries from a log that also holds a line with a bad id
StoredIdsAreHexWitness ==
    /\ Returned
    /\ run.result.value.commits # <<>>
    /\ \E i \in 1..Len(Srcs) :
           /\ Srcs[i].kind = "log"
           /\ \E n \in 1..Len(Srcs[i].lines) :
                  ~IsHexId(Srcs[i].lines[n].old) \/ ~IsHexId(Srcs[i].lines[n].new)

\* what identifies an event
EventTuple(e) == <<e.newSha, e.ts, e.authorEmail, e.msg>>

\* C5: the event list holds no two entries with the same (newSha, ts,
\* authorEmail, msg), and every event of every reflog is in it exactly once.
EventsAreDistinct ==
    Returned =>
        /\ \A i, j \in 1..Len(run.result.value.commits) :
               i # j => EventTuple(run.result.value.commits[i])
                            # EventTuple(run.result.value.commits[j])
        /\ \A r \in 1..Len(run.reflogs) :
               \A k \in 1..Len(run.reflogs[r].v) :
                   Cardinality({i \in 1..Len(run.result.value.commits) :
                                   EventTuple(run.result.value.commits[i])
                                       = EventTuple(run.reflogs[r].v[k])}) = 1

\* one event in the log of HEAD and in the log of a branch
EventsAreDistinctWitness ==
    /\ Returned
    /\ Len(run.reflogs) = 2
    /\ \E k \in 1..Len(run.reflogs[1].v) :
           \E m \in 1..Len(run.reflogs[2].v) :
               EventTuple(run.reflogs[1].v[k]) = EventTuple(run.reflogs[2].v[m])

\* where the flattening met the entry e first: the place of its ref in the
\* reflog map, then its place in the list of that ref
AppendPlace(e) ==
    LET r == CHOOSE x \in 1..Len(run.reflogs) : run.reflogs[x].k = e.ref
    IN  <<r, CHOOSE k \in 1..Len(run.reflogs[r].v) :
                 /\ run.reflogs[r].v[k] = e
                 /\ \A x \in 1..(k - 1) : run.reflogs[r].v[x] # e>>

AppendedBefore(a, b) ==
    \/ AppendPlace(a)[1] < AppendPlace(b)[1]
    \/ AppendPlace(a)[1] = AppendPlace(b)[1] /\ AppendPlace(a)[2] < AppendPlace(b)[2]

\* C6: the event list is ordered by time stamp descending, and entries of one
\* time stamp stand in the order the flattening appended them in.
EventsOrdered ==
    Returned =>
        \A i, j \in 1..Len(run.result.value.commits) :
            i < j =>
                /\ run.result.value.commits[i].ts >= run.result.value.commits[j].ts
                /\ run.result.value.commits[i].ts = run.result.value.commits[j].ts
                       => AppendedBefore(run.result.value.commits[i],
                                         run.result.value.commits[j])

\* a list with two entries of one time stamp, and with an entry the sort moved
\* before one appended earlier
EventsOrderedWitness ==
    /\ Returned
    /\ \E i, j \in 1..Len(run.result.value.commits) :
           i < j /\ run.result.value.commits[i].ts = run.result.value.commits[j].ts
    /\ \E i, j \in 1..Len(run.result.value.commits) :
           /\ i < j
           /\ AppendedBefore(run.result.value.commits[j], run.result.value.commits[i])

\* the cap N of an input
CapOf(options) ==
    IF options.maxReflogEntriesPerRef = Absent THEN 10000
    ELSE IF options.maxReflogEntriesPerRef[1] < 100 THEN 100
    ELSE IF options.maxReflogEntriesPerRef[1] > 200000 THEN 200000
    ELSE options.maxReflogEntriesPerRef[1]

LineIsWellFormed(l) == IsHexId(l.old) /\ IsHexId(l.new) /\ l.secs > 0

\* the entry a well-formed line of the log of ref stands for
EntryOf(l, ref) ==
    [oldSha |-> l.old, newSha |-> l.new, authorName |-> l.name, authorEmail |-> l.email,
     ts |-> l.secs, tz |-> l.tz, msg |-> l.msg, ref |-> ref]

\* the places of the well-formed lines
WellFormedAt(lines) == {k \in 1..Len(lines) : LineIsWellFormed(lines[k])}

\* the entries of the lines at the first n of the places
EntriesAt(lines, ref, n, places) ==
    [j \in 1..(IF Len(places) < n THEN Len(places) ELSE n) |->
        EntryOf(lines[places[j]], ref)]

\* the entries of the first n well-formed lines
FirstEntries(lines, ref, n) ==
    EntriesAt(lines, ref, n, SortedSeq(WellFormedAt(lines)))

\* the ref of the log at logs/<ref>
RefOfLog(path) == SubSeq(path, 6, Len(path))

\* C7: the list of every reflog file holds the entries of the first N
\* well-formed lines of that file, in file order, N being
\* maxReflogEntriesPerRef clamped to [100, 200000], 10000 by default.
ReflogsCapped ==
    /\ run.pc # "start" => run.options.maxReflogEntriesPerRef = CapOf(input.options)
    /\ AfterReflogs =>
           \A i \in 1..Len(Srcs) :
               Srcs[i].kind = "log" =>
                   /\ MapHas(run.reflogs, RefOfLog(Srcs[i].path))
                   /\ Len(MapGet(run.reflogs, RefOfLog(Srcs[i].path))) <= CapOf(input.options)
                   /\ MapGet(run.reflogs, RefOfLog(Srcs[i].path))
                          = FirstEntries(Srcs[i].lines, RefOfLog(Srcs[i].path),
                                         CapOf(input.options))

\* two logs cut at the cap, one of them with a malformed line before the cut
ReflogsCappedWitness ==
    /\ Returned
    /\ Len(Srcs) = 2
    /\ \A i \in 1..2 :
           /\ Cardinality(WellFormedAt(Srcs[i].lines)) > CapOf(input.options)
           /\ Len(MapGet(run.result.value.reflogs, RefOfLog(Srcs[i].path)))
                  = CapOf(input.options)
    /\ ~LineIsWellFormed(Srcs[1].lines[1])

\* C8 as stated: stats.totalBytes is the total the input index declares and
\* stats.totalFiles the number of its entries.
TotalsPassedThrough ==
    Returned =>
        /\ run.result.value.stats.totalBytes = input.index.totalBytes
        /\ run.result.value.stats.totalFiles = Len(input.index.byPath)

\* the time stamps of the event list
EventTimes == {run.result.value.commits[i].ts : i \in 1..Len(run.result.value.commits)}

\* C9: firstActivityTs is the least and lastActivityTs the greatest time stamp
\* of the event list, and both are undefined exactly when the list is empty.
ActivitySpan ==
    Returned =>
        IF run.result.value.commits = <<>>
        THEN /\ run.result.value.stats.firstActivityTs = <<>>
             /\ run.result.value.stats.lastActivityTs = <<>>
        ELSE /\ run.result.value.stats.firstActivityTs
                    = <<CHOOSE t \in EventTimes : \A u \in EventTimes : t <= u>>
             /\ run.result.value.stats.lastActivityTs
                    = <<CHOOSE t \in EventTimes : \A u \in EventTimes : t >= u>>
             /\ run.result.value.stats.firstActivityTs[1]
                    <= run.result.value.stats.lastActivityTs[1]

\* events at two times, the later one first in the list
ActivitySpanWitness ==
    /\ Returned
    /\ Len(run.result.value.commits) >= 2
    /\ run.result.value.stats.firstActivityTs # <<>>
    /\ run.result.value.stats.firstActivityTs[1] < run.result.value.stats.lastActivityTs[1]

\* n hundredths are a / b rounded to two decimals
IsRounded(n, a, b) == 2 * (100 * a - n * b) <= b /\ 2 * (n * b - 100 * a) <= b

\* C10: avgEventsPerDay is undefined exactly when the event list is empty;
\* else it is events / activeDays rounded to two decimals, activeDays being the
\* number of UTC days the events were written on, from 1 to events; 7 events
\* on 2 days give 3.5.
AverageEventsPerDay ==
    Returned =>
        /\ run.result.value.stats.avgEventsPerDay = <<>> <=> run.result.value.commits = <<>>
        /\ run.result.value.stats.events = Len(run.result.value.commits)
        /\ \A i \in 1..Len(Srcs) :
               /\ run.result.value.stats.events = Srcs[i].events
               /\ run.result.value.stats.activeDays = <<Srcs[i].days>>
               /\ 1 <= run.result.value.stats.activeDays[1]
               /\ run.result.value.stats.activeDays[1] <= run.result.value.stats.events
               /\ run.result.value.stats.avgEventsPerDay # <<>>
               /\ IsRounded(run.result.value.stats.avgEventsPerDay[1],
                            Srcs[i].events, Srcs[i].days)
               /\ Srcs[i].events = 7 /\ Srcs[i].days = 2
                      => run.result.value.stats.avgEventsPerDay = <<350>>

\* 7 events on 2 days
AverageEventsPerDayWitness ==
    /\ Returned
    /\ \E i \in 1..Len(Srcs) : Srcs[i].events = 7 /\ Srcs[i].days = 2
    /\ run.result.value.stats.avgEventsPerDay = <<350>>

\* the sum of the numbers a histogram holds at the keys
RECURSIVE SumAt(_, _)
SumAt(h, keys) ==
    IF keys = {} THEN 0
    ELSE h[CHOOSE k \in keys : TRUE].number
         + SumAt(h, keys \ {CHOOSE k \in keys : TRUE})

\* every value of the histogram is a number, and the numbers sum to n
CountsSumTo(h, n) ==
    /\ \A k \in DOMAIN h : h[k].type = "number"
    /\ SumAt(h, DOMAIN h) = n

\* C11 as stated: stats.events is the length of the event list, and the counts
\* of stats.authors and the counts of stats.eventTypes each sum to it.
HistogramsSumToEvents ==
    Returned =>
        /\ run.result.value.stats.events = Len(run.result.value.commits)
        /\ CountsSumTo(run.result.value.stats.authors, run.result.value.stats.events)
        /\ CountsSumTo(run.result.value.stats.eventTypes, run.result.value.stats.events)

ActionWords ==
    {<<"c", "o", "m", "m", "i", "t">>,
     <<"c", "h", "e", "c", "k", "o", "u", "t">>,
     <<"m", "e", "r", "g", "e">>,
     <<"r", "e", "b", "a", "s", "e">>,
     <<"r", "e", "s", "e", "t">>,
     <<"p", "u", "l", "l">>,
     <<"f", "e", "t", "c", "h">>,
     <<"a", "m", "e", "n", "d">>,
     <<"c", "h", "e", "r", "r", "y", "-", "p", "i", "c", "k">>,
     <<"c", "h", "e", "r", "r", "y", "p", "i", "c", "k">>}

TokenChars ==
    {"a", "b", "c", "d", "e", "f", "g", "h", "i", "j", "k", "l", "m", "n", "o", "p", "q", "r",
     "s", "t", "u", "v", "w", "x", "y", "z", "0", "1", "2", "3", "4", "5", "6", "7", "8", "9",
     "-"}

\* the first word of a message in lower case
LowerWord(m) == toLowerCase(m.word)

\* the action words a word starts with
ActionsOf(w) == {a \in ActionWords : Len(a) <= Len(w) /\ SubSeq(w, 1, Len(a)) = a}

\* the type of a message by its parts: the action word its first word starts
\* with, else the first word when it is a token with a colon after it, else
\* other, or unknown when nothing is written
ExpectedType(m) ==
    IF ActionsOf(LowerWord(m)) # {}
    THEN (IF ActionsOf(LowerWord(m)) = {<<"c", "h", "e", "r", "r", "y", "p", "i", "c", "k">>}
          THEN <<"c", "h", "e", "r", "r", "y", "-", "p", "i", "c", "k">>
          ELSE CHOOSE a \in ActionsOf(LowerWord(m)) : TRUE)
    ELSE IF /\ m.word # <<>>
            /\ m.colon = <<":">>
            /\ \A i \in 1..Len(m.word) : LowerWord(m)[i] \in TokenChars
    THEN LowerWord(m)
    ELSE IF \E i \in 1..Len(RenderMsg(m)) : RenderMsg(m)[i] \notin {" ", "\t", "\n", "\r"}
    THEN <<"o", "t", "h", "e", "r">>
    ELSE <<"u", "n", "k", "n", "o", "w", "n">>

\* C12: the types counted for a log are the types of the messages of its
\* lines: the action word the message starts with after trimming and
\* lower-casing, else the token before its colon, else other, or unknown for
\* an empty message.
MessagesClassified ==
    Returned /\ Len(Srcs) = 1 /\ Srcs[1].kind = "log" =>
        /\ Len(run.result.value.commits) = Len(Srcs[1].lines)
        /\ DOMAIN run.result.value.stats.eventTypes
               = {ExpectedType(Srcs[1].lines[j].parts) : j \in 1..Len(Srcs[1].lines)}

\* the log of 'checkout: moving from a to b' and 'custom-tool: did something'
MessagesClassifiedWitness ==
    /\ Returned
    /\ Len(Srcs) = 1
    /\ Len(Srcs[1].lines) = 2
    /\ Srcs[1].lines[1].msg
           = <<"c", "h", "e", "c", "k", "o", "u", "t", ":", " ", "m", "o", "v", "i", "n", "g", " ", "f", "r", "o", "m", " ", "a", " ", "t", "o", " ", "b">>
    /\ Srcs[1].lines[2].msg
           = <<"c", "u", "s", "t", "o", "m", "-", "t", "o", "o", "l", ":", " ", "d", "i", "d", " ", "s", "o", "m", "e", "t", "h", "i", "n", "g">>
    /\ DOMAIN run.result.value.stats.eventTypes
           = {<<"c", "h", "e", "c", "k", "o", "u", "t">>, <<"c", "u", "s", "t", "o", "m", "-", "t", "o", "o", "l">>}

\* the lines the config file of the input was written from
ConfigLines == Srcs[1].lines

\* the snapshot of a config file has been returned
ConfigReturned == Returned /\ Len(Srcs) = 1 /\ Srcs[1].kind = "config"

Remotes == run.result.value.config[1].remotes

IsHeaderAt(h) == ConfigLines[h].kind \in {"remote", "section"}

IsRemoteAt(h) == ConfigLines[h].kind = "remote"

\* the lines of the section the header at h opens
SectionOf(h) ==
    {j \in (h + 1)..Len(ConfigLines) : \A i \in (h + 1)..j : ~IsHeaderAt(i)}

\* the key = value lines of the section at h that write one of the keys
WritesOf(h, keys) ==
    {j \in SectionOf(h) :
        ConfigLines[j].kind = "kv" /\ toLowerCase(ConfigLines[j].key) \in keys}

\* the value of the last of the lines at the places, if any
LastValue(places) ==
    IF places = {} THEN <<>>
    ELSE <<ConfigLines[CHOOSE j \in places : \A x \in places : x <= j].value>>

\* the header at h is the last header of its remote
LastOfRemote(h) ==
    /\ IsRemoteAt(h)
    /\ \A x \in (h + 1)..Len(ConfigLines) :
           IsRemoteAt(x) => ConfigLines[x].name # ConfigLines[h].name

RemotesNamed(name) == {i \in 1..Len(Remotes) : Remotes[i].name = name}

FetchKeys == {<<"u", "r", "l">>, <<"f", "e", "t", "c", "h">>}

PushKeys == {<<"p", "u", "s", "h", "u", "r", "l">>}

\* the URL is absent when the section at h has none of the lines at the
\* places, and else the value of one of them
WrittenIn(url, places) ==
    IF places = {} THEN url = <<>>
    ELSE \E j \in places : url = <<ConfigLines[j].value>>

\* C13: the result holds one record per remote name, and the record of a name
\* is the one of the last section of that name alone: its fetch and push URL
\* are written in that section, and absent when that section writes none.
OneRemotePerName ==
    ConfigReturned =>
        /\ \A i, j \in 1..Len(Remotes) : Remotes[i].name = Remotes[j].name => i = j
        /\ {Remotes[i].name : i \in 1..Len(Remotes)}
               = {ConfigLines[h].name : h \in {x \in 1..Len(ConfigLines) : IsRemoteAt(x)}}
        /\ \A h \in 1..Len(ConfigLines) :
               LastOfRemote(h) =>
                   \A i \in RemotesNamed(ConfigLines[h].name) :
                       /\ WrittenIn(Remotes[i].fetch, WritesOf(h, FetchKeys))
                       /\ WrittenIn(Remotes[i].push, WritesOf(h, PushKeys))

\* two sections of origin with two url values, and a push URL in the first alone
OneRemotePerNameWitness ==
    /\ ConfigReturned
    /\ Len(ConfigLines) = 4
    /\ IsRemoteAt(1) /\ IsRemoteAt(3)
    /\ ConfigLines[1].name = ConfigLines[3].name
    /\ ConfigLines[2].kind = "kv" /\ ConfigLines[2].key = <<"p", "u", "s", "h", "u", "r", "l">>
    /\ ConfigLines[4].kind = "kv" /\ ConfigLines[4].key = <<"u", "r", "l">>
    /\ Len(Remotes) = 1
    /\ Remotes[1].push = <<>>
    /\ Remotes[1].fetch = <<ConfigLines[4].value>>

\* C14: the fetch URL of a remote is the value of the last url or fetch line
\* of its section and its push URL the value of the last pushurl line, and
\* the lines outside the sections of remotes make and change no record.
LastWriteWins ==
    ConfigReturned =>
        /\ Len(Remotes) = Cardinality({h \in 1..Len(ConfigLines) : LastOfRemote(h)})
        /\ \A h \in 1..Len(ConfigLines) :
               LastOfRemote(h) =>
                   \E i \in 1..Len(Remotes) :
                       Remotes[i] = [name  |-> ConfigLines[h].name,
                                     fetch |-> LastValue(WritesOf(h, FetchKeys)),
                                     push  |-> LastValue(WritesOf(h, PushKeys))]

\* a url line outside every remote, and a remote with a url line and a fetch
\* line after it
LastWriteWinsWitness ==
    /\ ConfigReturned
    /\ Len(ConfigLines) = 4
    /\ ConfigLines[1].kind = "kv" /\ toLowerCase(ConfigLines[1].key) = <<"u", "r", "l">>
    /\ IsRemoteAt(2)
    /\ ConfigLines[3].kind = "kv" /\ toLowerCase(ConfigLines[3].key) = <<"u", "r", "l">>
    /\ ConfigLines[4].kind = "kv" /\ toLowerCase(ConfigLines[4].key) = <<"f", "e", "t", "c", "h">>
    /\ Len(Remotes) = 1
    /\ Remotes[1].fetch = <<ConfigLines[4].value>>
    /\ Remotes[1].fetch # <<ConfigLines[3].value>>

\* C15: a run in which a step raised has failed with one GitAnalyzeError whose
\* cause is the error raised, it takes no further step, and a run that
\* returned a snapshot raised nothing.
FailureIsWrapped ==
    /\ run.thrown # <<>> =>
           /\ run.pc = "failed"
           /\ run.result.kind = "error"
           /\ run.result.value.name = "GitAnalyzeError"
           /\ run.result.value.cause = run.thrown
           /\ ~ENABLED Next
    /\ run.result.kind = "error" => run.thrown # <<>>
    /\ run.result.kind = "snapshot" => run.thrown = <<>> /\ run.pc = "done"

\* the read of a special ref failed after the packed and loose refs were parsed
FailureIsWrappedWitness ==
    /\ run.pc = "failed"
    /\ run.refs # <<>>
    /\ run.head = NoHead
    /\ run.thrown = <<"NotReadableError">>
    /\ run.result.value.cause = <<"NotReadableError">>

\* a packed-refs line, a loose ref file, a config line and a reflog line that
\* do not have their shape
MalformedPackedLine(l) == l.kind = "onetoken" \/ (l.kind = "entry" /\ ~IsHexId(l.id))

MalformedLoose(d) == d.kind = "loose" /\ ~IsHexId(d.id)

MalformedConfigLine(l) == l.kind = "other"

MalformedLogLine(l) == ~LineIsWellFormed(l)

\* what a file is written from, without its malformed lines
WellFormedPart(d) ==
    CASE d.kind = "packed" ->
             [d EXCEPT !.lines = SelectSeq(d.lines, LAMBDA l : ~MalformedPackedLine(l))]
      [] d.kind = "config" ->
             [d EXCEPT !.lines = SelectSeq(d.lines, LAMBDA l : ~MalformedConfigLine(l))]
      [] d.kind = "log" ->
             [d EXCEPT !.lines = SelectSeq(d.lines, LAMBDA l : ~MalformedLogLine(l))]
      [] OTHER -> d

\* the files of the input without the malformed loose refs and without the
\* malformed lines of the others
WellFormedSrcs ==
    [i \in 1..Len(SelectSeq(Srcs, LAMBDA d : ~MalformedLoose(d))) |->
        WellFormedPart(SelectSeq(Srcs, LAMBDA d : ~MalformedLoose(d))[i])]

\* the input has a malformed item
HasMalformed == WellFormedSrcs # Srcs

\* the normalized index of the input without its malformed items
WellFormedFiles == normalizeIndex(MkIndex(WellFormedSrcs))

RemotesOf(config) == IF config = <<>> THEN <<>> ELSE config[1].remotes

\* C16: a run fails only when a read raised, and the ref table, the remotes
\* and the reflog entries of its snapshot are those of the input without its
\* malformed packed-refs lines, loose ref files, config lines and reflog lines.
MalformedSkippedAlone ==
    /\ run.pc = "failed" => run.thrown # <<>>
    /\ Returned =>
           /\ run.result.value.refs = parseRefs(WellFormedFiles)
           /\ RemotesOf(run.result.value.config)
                  = RemotesOf(parseConfig(WellFormedFiles, FALSE))
           /\ run.result.value.reflogs
                  = parseReflogs(WellFormedFiles, run.options.maxReflogEntriesPerRef)

\* a malformed loose ref next to a packed entry of its name, which stays
MalformedSkippedAloneWitness ==
    /\ Returned
    /\ HasMalformed
    /\ \E i \in 1..Len(Srcs) : MalformedLoose(Srcs[i])
    /\ run.result.value.refs = <<[k |-> RefHeadsMain, v |-> IdB]>>

\* the files of the input at the path
FilesAt(path) == {i \in 1..Len(Srcs) : Srcs[i].path = path}

\* C17: the index of HEAD = "ref: refs/heads/main", refs/heads/main =
\* "abc1234\n" and a logs/HEAD of one line at 1700000000 gives a snapshot with
\* a symbolic head, one ref, no remote and one event, counted as one event,
\* one ref and one branch; and a run without HEAD, config or log fails only
\* when a read raised and returns with the head, the config or the events
\* absent.
MainRepoSnapshot ==
    /\ run.result.kind = "error" => run.thrown # <<>>
    /\ run.pc = "done" => Returned
    /\ Returned /\ input = MkInput(MainRepo, NoOptions) =>
           /\ run.result.value.head = [type |-> "ref", value |-> RefHeadsMain]
           /\ run.result.value.refs = <<[k |-> RefHeadsMain, v |-> IdA]>>
           /\ RemotesOf(run.result.value.config) = <<>>
           /\ Len(run.result.value.commits) = 1
           /\ run.result.value.commits[1].ts = 1700000000
           /\ run.result.value.stats.events = 1
           /\ run.result.value.stats.totalRefs = 1
           /\ run.result.value.stats.branches = 1
    /\ Returned =>
           /\ FilesAt(PathHEAD) = {} => run.result.value.head = NoHead
           /\ FilesAt(PathConfig) = {} => run.result.value.config = <<>>
           /\ FilesAt(PathLogHEAD) = {} =>
                  run.result.value.reflogs = <<>> /\ run.result.value.commits = <<>>

MainRepoSnapshotWitness ==
    /\ Returned
    /\ input = MkInput(MainRepo, NoOptions)
    /\ run.result.value.stats.events = 1
    /\ run.result.value.stats.branches = 1
    /\ run.result.value.config = <<>>

\* what the files of the input inp were written from
SrcsOf(inp) == [i \in 1..Len(inp.index.byPath) |-> inp.index.byPath[i].v.src]

\* the snapshot is one of the input inp: its identity, the head its HEAD file
\* stands for, the ref of its refs/heads/main, one event for its logs/HEAD, and
\* the totals of its files
OwnSnapshot(inp, snap) ==
    /\ snap.identity = inp.identity
    /\ (\A i \in 1..Len(SrcsOf(inp)) : SrcsOf(inp)[i].kind # "head") => snap.head = NoHead
    /\ \A i \in 1..Len(SrcsOf(inp)) :
           SrcsOf(inp)[i].kind = "head" => snap.head = ExpectedHead(SrcsOf(inp)[i])
    /\ snap.refs = IF \E i \in 1..Len(SrcsOf(inp)) : SrcsOf(inp)[i] = MainLoose
                   THEN <<[k |-> RefHeadsMain, v |-> IdA]>> ELSE <<>>
    /\ Len(snap.commits)
           = Cardinality({i \in 1..Len(SrcsOf(inp)) : SrcsOf(inp)[i].path = PathLogHEAD})
    /\ snap.stats.events = Len(snap.commits)
    /\ snap.stats.totalFiles = Len(inp.index.byPath)
    /\ snap.stats.totalBytes = inp.index.totalBytes

OtherReturned == otherRun.result.kind = "snapshot"

\* C18: two calls of analyzeGitIndex, interleaved at their awaits, each return
\* the snapshot of their own input, whatever the other call is at; with equal
\* inputs they return equal snapshots; and a call fails only when a read of its
\* own raised.
RunsShareNoState ==
    /\ Returned => OwnSnapshot(input, run.result.value)
    /\ OtherReturned => OwnSnapshot(otherInput, otherRun.result.value)
    /\ Returned /\ OtherReturned /\ input = otherInput => run.result = otherRun.result
    /\ run.result.kind = "error" => run.thrown # <<>>
    /\ otherRun.result.kind = "error" => otherRun.thrown # <<>>

\* both calls returned, over different inputs, with different heads and events
RunsShareNoStateWitness ==
    /\ Returned
    /\ OtherReturned
    /\ input = MkInput(MainRepo, NoOptions)
    /\ otherInput = MkInput(<<HeadTokens(<<>>, IdB, <<>>, <<"\n">>)>>, NoOptions)
    /\ run.result.value.head = [type |-> "ref", value |-> RefHeadsMain]
    /\ otherRun.result.value.head = [type |-> "detached", value |-> IdB]
    /\ run.result.value.stats.events = 1
    /\ otherRun.result.value.stats.events = 0

\* C19: the controller never runs a double loop: at most one call of
\* refreshFromDirectoryHandle it made has not resolved, and a tick that starts
\* a refresh is one of the loop that runs.
NoDoubleLoop ==
    /\ Cardinality(live.inflight) <= 1
    /\ live.last.refreshed => live.running /\ live.last.token = live.loopToken

\* C20: once stop() has returned, and until start() is called, isRunning() is
\* false, the controller is not subscribed, and no step starts a refresh, sets a
\* timer or dispatches a message.
StopFullyStops ==
    live.stopped =>
        /\ ~live.running
        /\ ~live.subscribed
        /\ ~live.last.refreshed
        /\ ~live.last.scheduled
        /\ ~live.last.dispatched

\* the lines of the log at the path, none when the input has no such file
LinesAt(path) ==
    IF FilesAt(path) = {} THEN <<>> ELSE Srcs[CHOOSE i \in FilesAt(path) : TRUE].lines

\* the line records the event of the entry
SameEvent(l, e) ==
    /\ l.new = e.newSha
    /\ l.secs = e.ts
    /\ l.email = e.authorEmail
    /\ l.msg = e.msg

\* the first line of the lines that records the event of the entry
FirstLine(lines, e) ==
    lines[CHOOSE n \in 1..Len(lines) :
              /\ SameEvent(lines[n], e)
              /\ \A x \in 1..(n - 1) : ~SameEvent(lines[x], e)]

\* C22: of the reflog entries of one dedup key, the event list keeps the one
\* met first, logs/HEAD being visited before the logs under logs/refs wherever
\* it stands in the index: an event of logs/HEAD is kept with the ref HEAD and
\* the old id of its first line there, any other with those of its first line
\* in logs/refs/heads/m.
FirstOccurrenceKept ==
    Returned =>
        \A i \in 1..Len(run.result.value.commits) :
            IF \E n \in 1..Len(LinesAt(PathLogHEAD)) :
                   SameEvent(LinesAt(PathLogHEAD)[n], run.result.value.commits[i])
            THEN /\ run.result.value.commits[i].ref = <<"H", "E", "A", "D">>
                 /\ run.result.value.commits[i].oldSha
                        = FirstLine(LinesAt(PathLogHEAD), run.result.value.commits[i]).old
            ELSE /\ run.result.value.commits[i].ref = sliceFrom(PathLogMain, 5)
                 /\ run.result.value.commits[i].oldSha
                        = FirstLine(LinesAt(PathLogMain), run.result.value.commits[i]).old

\* logs/refs/heads/m stands first in the index, both logs record one event with
\* their own old ids, and the entry of logs/HEAD is the one kept
FirstOccurrenceKeptWitness ==
    /\ Returned
    /\ Srcs[1].path = PathLogMain
    /\ Srcs[1].lines = <<LogLine(IdA, IdB, <<"N">>, 1, MsgCommit)>>
    /\ LinesAt(PathLogHEAD) = <<LogLine(IdUpper, IdB, <<"N">>, 1, MsgCommit),
                                LogLine(IdFull, IdB, <<"N">>, 1, MsgCommit)>>
    /\ Len(run.result.value.commits) = 1
    /\ run.result.value.commits[1].ref = <<"H", "E", "A", "D">>
    /\ run.result.value.commits[1].oldSha = IdUpper

\* C30: normalizeGitPath is idempotent: the normalized path of every path of the
\* index normalizes to itself, and so does every key of the normalized index.
NormalizeIdempotent ==
    run.pc \notin {"start", "none"} =>
        /\ \A i \in 1..Len(input.index.byPath) :
               normalizeGitPath(normalizeGitPath(input.index.byPath[i].k))
                   = normalizeGitPath(input.index.byPath[i].k)
        /\ \A i \in 1..Len(run.files.byPath) :
               normalizeGitPath(run.files.byPath[i].k) = run.files.byPath[i].k

\* the local times of the browser, ahead of UTC by seconds
Zones == {0, 3600}

\* the events the timeline shows under the action filter A
ShownUnder(A, zone) ==
    filterEvents(run.result.value.commits, actionQuery(NoQuery, A), zone)

\* C23: for every class A that is a key of eventTypes, the timeline filtered
\* with timelineAction = A, as the action rows of the dashboard set it, holds
\* exactly the events counted under A.
FilterAgreesWithHistogram ==
    Returned =>
        \A A \in DOMAIN run.result.value.stats.eventTypes :
            \A zone \in Zones :
                /\ run.result.value.stats.eventTypes[A]
                       = NumberValue(Len(ShownUnder(A, zone)))
                /\ \A i \in 1..Len(ShownUnder(A, zone)) :
                       classifyReflogMessage(ShownUnder(A, zone)[i].msg) = A

\* C26: start() after stop() starts the polling loop when the store has live
\* enabled, the snapshot is of a directory handle and a handle is available:
\* isRunning() is true and a tick is scheduled when start() returns.
Restartable ==
    live.last.restarted /\ shouldRunLoop(live.store, live.handle) =>
        live.running /\ live.last.scheduled

\* what the resolution of a refresh leaves: the count within its range, zero
\* after a success, and after a failure the backoff timer of the count and a
\* warning at the counts 1, 3 and 5 only
BackoffSafe ==
    /\ live.consecutiveErrors \in 0..MaxConsecutiveErrors
    /\ live.last.resolved = "ok" => live.consecutiveErrors = 0 /\ ~live.last.dispatched
    /\ live.last.resolved = "failed" =>
           /\ \E t \in live.timers :
                  /\ t.id = live.timerId
                  /\ t.kind = "backoff"
                  /\ t.token = live.last.token
                  /\ t.delay = IF live.consecutiveErrors < 10
                               THEN live.consecutiveErrors * 1000 ELSE 10000
           /\ live.last.dispatched => live.consecutiveErrors \in {1, 3, 5}

\* a refresh of the running loop k failed
FailedIn(k) ==
    /\ live.last.resolved = "failed"
    /\ live.last.token = k
    /\ live.running
    /\ live.gen = k

\* a tick of the loop k ran, or the loop was stopped or restarted
TickedOrEnded(k) ==
    \/ live.last.refreshed /\ live.last.token = k
    \/ live.gen # k

\* C25: consecutiveErrors stays within 0..10, a successful refresh resets it,
\* a failed refresh sets the backoff timer of min(consecutiveErrors * 1000,
\* 10000) ms and warns at the counts 1, 3 and 5 only, and a failed refresh of
\* the running loop is followed by another tick of it unless the loop is
\* stopped or restarted.
SurvivesErrors ==
    /\ []BackoffSafe
    /\ \A k \in 1..(MaxGen - 1) : FailedIn(k) ~> TickedOrEnded(k)

\* the eleventh failure in a row of the running loop
SurvivesErrorsWitness ==
    /\ live.last.resolved = "failed"
    /\ live.consecutiveErrors = MaxConsecutiveErrors
    /\ live.running
    /\ live.last.token = live.gen
    /\ \E t \in live.timers : t.id = live.timerId /\ t.delay = MaxBackoffMs

\* C28: in every state of the store pollIntervalMs lies in [500, 60000],
\* perPage in [5, 250] and page is at least 0, whatever integers the actions
\* carry.
StoreBounds ==
    /\ ui.state.live.pollIntervalMs \in 500..60000
    /\ ui.state.timeline.perPage \in 5..250
    /\ ui.state.timeline.page >= 0

\* a negative page was dispatched over a page, a perPage and an interval at
\* their limits
StoreBoundsWitness ==
    /\ ui.lastAction.type = "ui/setTimelinePage"
    /\ ui.lastAction.page < 0
    /\ ui.state.timeline.page = 0
    /\ ui.state.timeline.perPage = 250
    /\ ui.state.live.pollIntervalMs = 60000

\* C21: a dispatch calls the listener of a subscription exactly when the
\* selection of the new state is not the value selected before (Object.is),
\* and gives it that value as its second argument.
NotifiesOnChangeOnly ==
    ui.op = "dispatch" =>
        \A i \in DOMAIN ui.subs :
            /\ ui.subs[i].called <=> ~ui.subs[i].unchanged
            /\ ui.subs[i].called => ui.subs[i].prevArg = ui.subs[i].prevWas

FailedRefreshKeepsSnapshot ==
    ui.op = "refresh" /\ ui.refresh.result = "failed" =>
        /\ ui.refresh.pc = "none"
        /\ ui.state.status = "error"
        /\ ui.state.message.kind = "error"
        /\ ~ui.refresh.interfered => ui.state.repo = ui.refresh.atStart

\* the refresh of a loaded project failed and the snapshot is there
FailedRefreshKeepsSnapshotWitness ==
    /\ ui.op = "refresh"
    /\ ui.refresh.result = "failed"
    /\ ~ui.refresh.interfered
    /\ ~ui.state.repo.null
    /\ ui.state.repo = ui.refresh.atStart

\* C29: after the unload button the snapshot is null, the file index empty and
\* the status 'idle', and a step of a refresh that was in flight leaves them
\* so.
UnloadedStaysUnloaded ==
    ui.unloaded /\ ui.op \in {"unload", "refresh"} =>
        /\ ui.state.repo = NullRepo
        /\ ui.state.files = 0
        /\ ui.state.status = "idle"

====
